---- MODULE Spec2Model ----
(***************************************************************************)
(* The payment-gated access window of micro-niche-engine.                  *)
(*                                                                         *)
(* Modelled code:                                                          *)
(*   src/app/api/stripe/pass.ts           verifyDeepProofPass and its memo *)
(*   src/app/api/generate/deep/route.ts   POST (the paid endpoint)         *)
(*   src/app/api/stripe/verify-session/route.ts   GET                      *)
(*   src/app/api/generate/instant/route.ts        POST (the stub)          *)
(*   src/app/api/stripe/create-checkout-session/route.ts   POST            *)
(*   src/unnamed/part_008   verifyDeepProofPass (price-checking revision)  *)
(*   src/unnamed/part_012   GET verify-session (price-checking revision,   *)
(*                          and the bare revision)                         *)
(*   src/unnamed/part_007   verifyDeepProofPass (SDK revision)             *)
(*   src/unnamed/part_010   verifyDeepProofPass (delegating revision)      *)
(*   src/unnamed/part_011   GET verify-session (paid flag only)            *)
(*   src/unnamed/part_002   POST and normalizeInstantProof (model-backed   *)
(*                          revision of the instant endpoint)              *)
(*   src/components/MicroNicheEngineFrontendPrototype.tsx   the app page:  *)
(*                          unlock state, history and saved lists          *)
(*   src/unnamed/part_014   UnlockPage (the revision that verifies)        *)
(*                                                                         *)
(* Time is the server's Date.now() in milliseconds.  A call of             *)
(* verifyDeepProofPass is a process: the synchronous part up to the await  *)
(* of the provider lookup (Begin), the provider answering (Lookup), and    *)
(* the continuation after the await (Finish).  Several calls may overlap.  *)
(***************************************************************************)
EXTENDS Integers, Sequences, FiniteSets, TLC

VARIABLES
    env,            \* process.env: DEEP_PASS_HOURS, STRIPE_SECRET_KEY
    now,            \* Date.now(), ms
    ticks,          \* number of clock steps taken (bounds the exploration)
    provider,       \* the payment provider's checkout sessions, by id
    cache,          \* pass.ts `cache`: Map<sessionId, {value, expiresAt}>
    calls,          \* the requests in flight, one record per call slot
    last,           \* the response produced by the step just taken, if any
    scenario,       \* what the exploration admits: request slots, lookup errors
    lastGrant,      \* history: per id, the last grant computed from a provider record
    expiredDenied   \* history: ids for which "Pass expired." has been returned

vars == <<env, now, ticks, provider, cache, calls, last, scenario, lastGrant, expiredDenied>>

----------------------------------------------------------------------------
(* Bounds of the exploration *)

MaxTicks == 2

Calls == {1, 2}

(* Clock steps, ms: one millisecond, and the three memo ttls. *)
Deltas == {1, 15000, 30000, 60000}

(* The process may start this many ms before the expiry of a session. *)
StartOffsets == {60000, 1000, 1}

----------------------------------------------------------------------------
(* Strings are sequences of one-character strings, so that trim() and      *)
(* Number() are computed and not assumed.                                  *)

IsSpace(ch) == ch \in {" ", "\t", "\n"}

RECURSIVE TrimStart(_)
TrimStart(s) ==
    IF s = <<>> THEN <<>>
    ELSE IF IsSpace(Head(s)) THEN TrimStart(Tail(s)) ELSE s

RECURSIVE TrimEnd(_)
TrimEnd(s) ==
    IF s = <<>> THEN <<>>
    ELSE IF IsSpace(s[Len(s)]) THEN TrimEnd(SubSeq(s, 1, Len(s) - 1)) ELSE s

(* String.prototype.trim *)
Trim(s) == TrimEnd(TrimStart(s))

(* What a JSON value or an environment variable may hold. *)
Undefined == [t |-> "undefined"]
JStr(s) == [t |-> "string", s |-> s]
JNum(n) == [t |-> "number", v |-> n]

(* IEEE numbers as far as Number() of the modelled strings produces them. *)
NaN == [k |-> "nan"]
PosInf == [k |-> "inf"]
NegInf == [k |-> "-inf"]
Fin(n) == [k |-> "num", v |-> n]

DigitVal(ch) ==
    CASE ch = "0" -> 0 [] ch = "1" -> 1 [] ch = "2" -> 2 [] ch = "3" -> 3
      [] ch = "4" -> 4 [] ch = "5" -> 5 [] ch = "6" -> 6 [] ch = "7" -> 7
      [] ch = "8" -> 8 [] ch = "9" -> 9 [] OTHER -> -1

IsDigits(s) == s # <<>> /\ \A i \in 1..Len(s) : DigitVal(s[i]) >= 0

RECURSIVE DigitsValue(_)
DigitsValue(s) ==
    IF s = <<>> THEN 0
    ELSE 10 * DigitsValue(SubSeq(s, 1, Len(s) - 1)) + DigitVal(s[Len(s)])

InfinityLit == <<"I", "n", "f", "i", "n", "i", "t", "y">>

(* The ECMAScript Number(string) conversion on strings made of white       *)
(* space, a sign, decimal digits and letters (no fraction, exponent or     *)
(* radix prefix): trimmed, "" is 0, [+-]digits is the integer,             *)
(* [+-]Infinity is infinite, anything else is NaN.                         *)
StringToNumber(s) ==
    LET t == Trim(s)
        neg == t # <<>> /\ Head(t) = "-"
        signed == t # <<>> /\ Head(t) \in {"-", "+"}
        body == IF signed THEN Tail(t) ELSE t
    IN  IF t = <<>> THEN Fin(0)
        ELSE IF IsDigits(body) THEN Fin(IF neg THEN 0 - DigitsValue(body) ELSE DigitsValue(body))
        ELSE IF body = InfinityLit THEN (IF neg THEN NegInf ELSE PosInf)
        ELSE NaN

IsFinite(x) == x.k = "num"

----------------------------------------------------------------------------
(* pass.ts *)

MsPerSecond == 1000
MsPerHour == 3600000
DefaultPassHours == 24
TtlLookupFailed == 15000
TtlDenied == 30000
TtlGranted == 60000
LookupTimeoutMs == 7000

PassOk(e, s) == [ok |-> TRUE, passExpiresAt |-> e, secondsRemaining |-> s]
PassFail(r) == [ok |-> FALSE, reason |-> r]

(* clampSeconds, applied to the quotient ms / 1000 of two integers: the    *)
(* quotient is always finite, Math.floor is the floor division.            *)
clampSeconds(ms) ==
    LET floored == ms \div MsPerSecond
    IN  IF floored > 0 THEN floored ELSE 0

(* getPassHours: Number(process.env.DEEP_PASS_HOURS ?? 24), then the       *)
(* finite-and-positive test.                                               *)
getPassHours(e) ==
    LET raw == e.DEEP_PASS_HOURS
        n == IF raw.t = "undefined" THEN Fin(DefaultPassHours) ELSE StringToNumber(raw.s)
    IN  IF IsFinite(n) /\ n.v > 0 THEN n.v ELSE DefaultPassHours

(* cacheGet's verdict: the memoized value, or "miss". *)
CacheHitIgnoreExpiry(c, id, t) == id \in DOMAIN c
CacheHit(c, id, t) == id \in DOMAIN c /\ ~(t > c[id].expiresAt)

(* The map after cacheGet: an entry found expired is deleted. *)
CacheAfterGet(c, id, t) ==
    IF id \in DOMAIN c /\ t > c[id].expiresAt
    THEN [k \in DOMAIN c \ {id} |-> c[k]]
    ELSE c

(* cacheSet *)
CacheSetKeepExisting(c, id, value, ttlMs, t) ==
    IF id \in DOMAIN c THEN c
    ELSE [k \in DOMAIN c \cup {id} |->
            IF k = id THEN [value |-> value, expiresAt |-> t + ttlMs] ELSE c[k]]
cacheSet(c, id, value, ttlMs, t) ==
    [k \in DOMAIN c \cup {id} |->
        IF k = id THEN [value |-> value, expiresAt |-> t + ttlMs] ELSE c[k]]

(* What stripeGetCheckoutSession hands back to its caller: the parsed body *)
(* of a 2xx answer (null when the body is no JSON), or a thrown Error.     *)
Returned(json) == [kind |-> "json", json |-> json]
Thrown(msg) == [kind |-> "throw", msg |-> msg]
JsonNull == [t |-> "null"]
JsonSession(ps, created) == [t |-> "object", payment_status |-> ps, created |-> created]

(* session?.payment_status when it is a string, else "" *)
PaymentStatusOf(json) ==
    IF json.t = "object" /\ json.payment_status.t = "string" THEN json.payment_status.s ELSE ""

(* session?.created when it is a number, else Math.floor(Date.now() / 1000) *)
CreatedSecOf(json, t) ==
    IF json.t = "object" /\ json.created.t = "number" THEN json.created.v ELSE t \div MsPerSecond

PassExpiresAtOf(createdSec, passHours) == createdSec * MsPerSecond + passHours * MsPerHour

(* The continuation of verifyDeepProofPass after the await: the result and *)
(* the ttl it is memoized with.                                            *)
AcceptAnyStatus(resp, e, t) ==
    IF resp.kind = "throw" THEN [out |-> PassFail(resp.msg), ttl |-> TtlLookupFailed]
    ELSE
        LET passExpiresAt == PassExpiresAtOf(CreatedSecOf(resp.json, t), getPassHours(e))
            secondsRemaining == clampSeconds(passExpiresAt - t)
        IN  IF secondsRemaining <= 0
            THEN [out |-> PassFail("Pass expired."), ttl |-> TtlDenied]
            ELSE [out |-> PassOk(passExpiresAt, secondsRemaining), ttl |-> TtlGranted]
FailOpen(resp, e, t) ==
    LET passExpiresAt == PassExpiresAtOf(
            IF resp.kind = "json" THEN CreatedSecOf(resp.json, t) ELSE t \div MsPerSecond,
            getPassHours(e))
        secondsRemaining == clampSeconds(passExpiresAt - t)
    IN  IF resp.kind = "json" /\ PaymentStatusOf(resp.json) # "paid"
        THEN [out |-> PassFail("Payment not completed."), ttl |-> TtlDenied]
        ELSE IF secondsRemaining <= 0
        THEN [out |-> PassFail("Pass expired."), ttl |-> TtlDenied]
        ELSE [out |-> PassOk(passExpiresAt, secondsRemaining), ttl |-> TtlGranted]
Decide(resp, e, t) ==
    IF resp.kind = "throw" THEN [out |-> PassFail(resp.msg), ttl |-> TtlLookupFailed]
    ELSE IF PaymentStatusOf(resp.json) # "paid"
    THEN [out |-> PassFail("Payment not completed."), ttl |-> TtlDenied]
    ELSE
        LET passExpiresAt == PassExpiresAtOf(CreatedSecOf(resp.json, t), getPassHours(e))
            secondsRemaining == clampSeconds(passExpiresAt - t)
        IN  IF secondsRemaining <= 0
            THEN [out |-> PassFail("Pass expired."), ttl |-> TtlDenied]
            ELSE [out |-> PassOk(passExpiresAt, secondsRemaining), ttl |-> TtlGranted]

----------------------------------------------------------------------------
(* generate/deep/route.ts *)

isRecord(v) == v.t \in {"object", "array"}

(* getString(v) ?? "" *)
getStringOrEmpty(v) == IF v.t = "string" THEN v.s ELSE <<>>

(* getInstant(v) # null *)
InstantUnchecked(v) == isRecord(v)
InstantOk(v) ==
    /\ isRecord(v)
    /\ v.microNiche.t = "string" /\ v.microNiche.s # <<>>
    /\ v.coreProblem.t = "string" /\ v.coreProblem.s # <<>>
    /\ isRecord(v.firstService)
    /\ v.firstService.name.t = "string"
    /\ v.firstService.outcome.t = "string"

(* The response of POST once the pass is known: 402 with the reason, or    *)
(* the report with the pass in its meta.                                   *)
(* meta.passHours: Number(process.env.DEEP_PASS_HOURS ?? 24) || 24 *)
MetaPassHours(e) ==
    LET raw == e.DEEP_PASS_HOURS
        n == IF raw.t = "undefined" THEN Fin(DefaultPassHours) ELSE StringToNumber(raw.s)
    IN  IF n = NaN \/ n = Fin(0) THEN Fin(DefaultPassHours) ELSE n

RespondIgnoringPass(pass) ==
    [status |-> 200, report |-> TRUE,
     meta |-> IF pass.ok THEN [passExpiresAt |-> pass.passExpiresAt,
                               secondsRemaining |-> pass.secondsRemaining,
                               passHours |-> MetaPassHours(env)]
              ELSE [passExpiresAt |-> -1, secondsRemaining |-> -1,
                    passHours |-> MetaPassHours(env)]]
DeepRespond(pass) ==
    IF ~pass.ok
    THEN [status |-> 402, error |-> pass.reason]
    ELSE [status |-> 200, report |-> TRUE,
          meta |-> [passExpiresAt |-> pass.passExpiresAt,
                    secondsRemaining |-> pass.secondsRemaining,
                    passHours |-> MetaPassHours(env)]]

BadRequest(msg) == [status |-> 400, error |-> msg]

----------------------------------------------------------------------------
(* stripe/verify-session/route.ts *)

JBool(b) == [t |-> "boolean", b |-> b]

(* ToBoolean of undefined, null, a boolean, a number or an object *)
Truthy(v) ==
    CASE v.t = "undefined" -> FALSE
      [] v.t = "null" -> FALSE
      [] v.t = "boolean" -> v.b
      [] v.t = "number" -> v.v # 0
      [] OTHER -> TRUE

(* a && b *)
JsAnd(a, b) == IF Truthy(a) THEN b ELSE a

(* The properties GET reads from a DeepPassResult; one the result does not *)
(* have reads as undefined.                                                *)
PassPaid(status) == IF "paid" \in DOMAIN status THEN JBool(status.paid) ELSE Undefined
PassOkFlag(status) == JBool(status.ok)
PassExpiresAtProp(status) ==
    IF "passExpiresAt" \in DOMAIN status THEN JNum(status.passExpiresAt) ELSE Undefined
SecondsRemainingProp(status) ==
    IF "secondsRemaining" \in DOMAIN status THEN JNum(status.secondsRemaining) ELSE Undefined

(* JSON.stringify of an object literal: a property whose value is          *)
(* undefined is left out.                                                  *)
JsonObject(fields) == [k \in {f \in DOMAIN fields : fields[f] # Undefined} |-> fields[k]]

(* The response of GET: NextResponse.json({paid, passExpiresAt, secondsRemaining}) *)
VerifySessionRespond(status) ==
    [status |-> 200,
     body |-> JsonObject([paid |-> JsAnd(PassPaid(status), PassOkFlag(status)),
                          passExpiresAt |-> PassExpiresAtProp(status),
                          secondsRemaining |-> SecondsRemainingProp(status)])]

----------------------------------------------------------------------------
(* JavaScript values of parsed JSON: objects are records holding "t" and   *)
(* the keys that are present, arrays are [t |-> "array", items |-> <<..>>]. *)

JArr(items) == [t |-> "array", items |-> items]

(* v?.k *)
Get(v, k) == IF v.t = "object" /\ k \in DOMAIN v THEN v[k] ELSE Undefined

(* a ?? b *)
Coalesce(a, b) == IF a.t \in {"undefined", "null"} THEN b ELSE a

(* Number.prototype.toString of an integer *)
RECURSIVE NumToStr(_)
NumToStr(n) ==
    LET Digit(d) ==
            <<CASE d = 0 -> "0" [] d = 1 -> "1" [] d = 2 -> "2" [] d = 3 -> "3" [] d = 4 -> "4"
                [] d = 5 -> "5" [] d = 6 -> "6" [] d = 7 -> "7" [] d = 8 -> "8" [] d = 9 -> "9">>
    IN  IF n < 0 THEN <<"-">> \o NumToStr(0 - n)
        ELSE IF n < 10 THEN Digit(n) ELSE NumToStr(n \div 10) \o Digit(n % 10)

(* String(v): ToString of a JSON value or undefined; an array joins its    *)
(* elements with ",", null and undefined elements giving "".               *)
RECURSIVE ToStr(_)
ToStr(v) ==
    CASE v.t = "string" -> v.s
      [] v.t = "number" -> NumToStr(v.v)
      [] v.t = "boolean" -> IF v.b THEN <<"t", "r", "u", "e">> ELSE <<"f", "a", "l", "s", "e">>
      [] v.t = "null" -> <<"n", "u", "l", "l">>
      [] v.t = "undefined" -> <<"u", "n", "d", "e", "f", "i", "n", "e", "d">>
      [] v.t = "array" ->
            LET RECURSIVE join(_)
                join(i) ==
                    IF i > Len(v.items) THEN <<>>
                    ELSE (IF i > 1 THEN <<",">> ELSE <<>>)
                         \o (IF v.items[i].t \in {"null", "undefined"} THEN <<>>
                             ELSE ToStr(v.items[i]))
                         \o join(i + 1)
            IN  join(1)
      [] OTHER -> <<"[", "o", "b", "j", "e", "c", "t", " ", "O", "b", "j", "e", "c", "t", "]">>

----------------------------------------------------------------------------
(* unnamed/part_002: the model-backed instant endpoint *)

(* String(a ?? b).trim() *)
StrTrim(a, b) == Trim(ToStr(Coalesce(a, b)))

(* arr.map((v) => String(v ?? "").trim()).filter(Boolean) *)
TrimmedStrings(items) ==
    SelectSeq([i \in 1..Len(items) |-> StrTrim(items[i], JStr(<<>>))], LAMBDA e : e # <<>>)

Medium == <<"M", "e", "d", "i", "u", "m">>
ConfidenceLevels == { <<"H", "i", "g", "h">>, Medium, <<"L", "o", "w">> }

(* The closure computing `confidence` from the trimmed string c *)
ConfidenceAsGiven(c) == c
ConfidenceOf(c) == IF c \in ConfidenceLevels THEN c ELSE Medium
NotProvided == <<"C", "o", "n", "f", "i", "d", "e", "n", "c", "e", " ", "e", "x", "p", "l", "a", "n", "a", "t", "i", "o", "n", " ", "n", "o", "t", " ", "p", "r", "o", "v", "i", "d", "e", "d", ".">>

(* normalizeInstantProof(x, fallbackLane): null, or the InstantProof *)
normalizeInstantProof(x, fallbackLane) ==
    LET meta == Get(x, "meta")
        General == <<"G", "e", "n", "e", "r", "a", "l">>
        StringList(v) == IF v.t = "array" THEN TrimmedStrings(v.items) ELSE <<>>
        microNiche == StrTrim(Coalesce(Coalesce(Get(x, "microNiche"), Get(x, "micro_niche")),
                                       Get(x, "name")), JStr(<<>>))
        buyerPlacesRaw == Coalesce(Coalesce(Get(x, "buyerPlaces"), Get(x, "buyer_places")),
                                   Get(x, "channel"))
        lane == StrTrim(Coalesce(Coalesce(Get(meta, "lane"), Get(x, "lane")), fallbackLane),
                        JStr(General))
        c == StrTrim(Coalesce(Get(meta, "confidence"), Get(x, "confidence")), JStr(Medium))
        confidenceWhy == StrTrim(Coalesce(Get(meta, "confidenceWhy"), Get(x, "confidenceWhy")),
                                 JStr(<<>>))
    IN  IF x.t \notin {"object", "array"} THEN JsonNull
        ELSE IF microNiche = <<>> THEN JsonNull
        ELSE [microNiche |-> microNiche,
              coreProblem |-> StrTrim(Coalesce(Get(x, "coreProblem"), Get(x, "pain")), JStr(<<>>)),
              firstService |->
                [name |-> StrTrim(Coalesce(Get(Get(x, "firstService"), "name"), Get(x, "offer")),
                                  JStr(<<"S", "e", "r", "v", "i", "c", "e">>)),
                 outcome |-> StrTrim(Coalesce(Get(Get(x, "firstService"), "outcome"),
                                              Get(x, "outcome")), JStr(<<>>))],
              buyerPlaces |-> IF buyerPlacesRaw.t = "array" THEN TrimmedStrings(buyerPlacesRaw.items)
                              ELSE TrimmedStrings(<<buyerPlacesRaw>>),
              oneActionToday |->
                StrTrim(Coalesce(Coalesce(Get(x, "oneActionToday"), Get(x, "one_action_today")),
                                 Get(x, "first_step")), JStr(<<>>)),
              meta |-> [lane |-> IF lane = <<>> THEN General ELSE lane,
                        confidence |-> ConfidenceOf(c),
                        confidenceWhy |-> IF confidenceWhy = <<>> THEN NotProvided ELSE confidenceWhy,
                        confidenceDrivers |-> StringList(Get(meta, "confidenceDrivers")),
                        confidenceRaise |-> StringList(Get(meta, "confidenceRaise")),
                        gatesPassed |-> StringList(Get(meta, "gatesPassed"))]]

(* A request body as req.json() finds it: no JSON at all (the promise      *)
(* rejects), or a JSON value.                                              *)
NotJson == [t |-> "notjson"]

(* The text of a completion, by its length in characters and by what       *)
(* stripCodeFences leaves of it as JSON.parse reads that: nothing (Blank), *)
(* no JSON (NotJson), or a JSON value.                                     *)
Blank == [t |-> "blank"]
Text(chars, cleaned) == [t |-> "text", chars |-> chars, cleaned |-> cleaned]

(* safeJsonParse(content): null for an empty rest and for a parse error *)
safeJsonParse(content) ==
    IF content.cleaned \in {Blank, NotJson} THEN JsonNull ELSE content.cleaned

RawLimit == 1200

(* The response of POST once the completion is there: 500 with the first   *)
(* 1200 characters of the content, or 200 with {ok: true, ...normalized}.  *)
InstantRespond(content, lane) ==
    LET normalized == normalizeInstantProof(safeJsonParse(content), JStr(lane))
    IN  IF normalized = JsonNull
        THEN [status |-> 500,
              body |-> [ok |-> FALSE, error |-> "Model did not return valid InstantProof JSON",
                        raw |-> [chars |-> IF content.chars < RawLimit THEN content.chars ELSE RawLimit,
                                 of |-> content]]]
        ELSE [status |-> 200,
              body |-> [k \in {"ok"} \cup DOMAIN normalized |->
                            IF k = "ok" THEN JBool(TRUE) ELSE normalized[k]]]

----------------------------------------------------------------------------
(* generate/instant/route.ts: the stub *)

(* The InstantProof the stub answers with: the micro-niche by whether the  *)
(* lower-cased seed (ids, notes, trimmed avoid list) includes "local", the *)
(* lane and the time in its meta.                                          *)
StubResult(body, t) ==
    LET str(k, dflt) == IF Get(body, k).t = "string" THEN Get(body, k).s ELSE dflt
        getStringArrayOrEmpty(v) ==
            IF v.t # "array" THEN <<>>
            ELSE SelectSeq([i \in 1..Len(v.items) |->
                                IF v.items[i].t = "string" THEN Trim(v.items[i].s) ELSE <<>>],
                           LAMBDA e : e # <<>>)
        ToLowerCase(w) ==
            [i \in 1..Len(w) |->
                CASE w[i] = "L" -> "l" [] w[i] = "O" -> "o" [] w[i] = "C" -> "c"
                  [] w[i] = "A" -> "a" [] OTHER -> w[i]]
        Includes(w, sub) ==
            \E i \in 1..(Len(w) + 1) :
                i + Len(sub) - 1 <= Len(w) /\ SubSeq(w, i, i + Len(sub) - 1) = sub
        RECURSIVE join(_)
        join(l) == IF l = <<>> THEN <<>>
                   ELSE Head(l) \o (IF Len(l) > 1 THEN <<",">> ELSE <<>>) \o join(Tail(l))
        seed == ToLowerCase(
                    str("laneId", <<"s", "u", "r", "p", "r", "i", "s", "e">>) \o <<"|">>
                    \o str("timeId", <<"5", "-", "1", "0">>) \o <<"|">>
                    \o str("levelId", <<"b", "e", "g", "i", "n", "n", "e", "r">>) \o <<"|">>
                    \o str("notes", <<>>) \o <<"|">>
                    \o join(getStringArrayOrEmpty(Get(body, "avoidMicroNiches"))))
    IN  [microNiche |-> IF Includes(seed, <<"l", "o", "c", "a", "l">>)
                        THEN "Local HVAC companies that struggle with missed calls after hours"
                        ELSE "Solo service providers who need faster lead qualification without ads",
         meta |-> [lane |-> str("lane", <<"S", "u", "r", "p", "r", "i", "s", "e", " ", "m", "e">>),
                   confidence |-> Medium,
                   generatedAt |-> t]]

----------------------------------------------------------------------------
(* The environment of the model: configuration, sessions, requests *)

(* DEEP_PASS_HOURS: unset, "", "abc", "0", "-1", " 2 ", "Infinity" *)
PassHoursSettings ==
    { Undefined, JStr(<<>>), JStr(<<"a", "b", "c">>), JStr(<<"0">>), JStr(<<"-", "1">>),
      JStr(<<" ", "2", " ">>), JStr(InfinityLit) }

(* STRIPE_SECRET_KEY: unset, set *)
SecretSettings == { Undefined, JStr(<<"s", "k">>) }

(* The one checkout session the provider knows, and the ways a caller may  *)
(* write its id (or none).                                                 *)
TheSession == <<"c", "s">>
SessionIds == {TheSession}
SessionIdArgs ==
    { Undefined, JStr(<<" ">>), JStr(TheSession), JStr(<<" ">> \o TheSession \o <<" ">>) }

(* The session_id query parameter of GET verify-session: searchParams.get  *)
(* gives null when it is absent.                                           *)
SessionIdQueries == { JsonNull, JStr(TheSession) }

(* session.created of the provider's record, in seconds; a record may lack it *)
CreatedSettings == { Undefined, JNum(1) }
PaymentStatusSettings == { JStr("unpaid"), JStr("no_payment_required"), JStr("paid") }

(* Errors of the lookup: fetch rejecting, a non-2xx answer, the 7 s        *)
(* AbortSignal firing.                                                     *)
LookupErrors ==
    { "fetch failed", "Stripe request failed (500)", "The operation was aborted due to timeout" }

ValidInstant ==
    [t |-> "object", microNiche |-> JStr(<<"n">>), coreProblem |-> JStr(<<"p">>),
     firstService |-> [t |-> "object", name |-> JStr(<<"s">>), outcome |-> JStr(<<>>)]]
Instants ==
    { JsonNull, ValidInstant,
      [ValidInstant EXCEPT !.microNiche = JStr(<<>>)],
      [ValidInstant EXCEPT !.coreProblem = Undefined],
      [ValidInstant EXCEPT !.firstService = JsonNull],
      [ValidInstant EXCEPT !.firstService.name = Undefined] }

(* Bodies of a POST to the deep endpoint; `paid` is a field the client may *)
(* add on its own.                                                         *)
DeepBody(sid, ins, p) == [t |-> "object", sessionId |-> sid, instant |-> ins, paid |-> p]
DeepBodies ==
    { JsonNull, JStr(<<"x">>) }
    \cup { DeepBody(sid, ValidInstant, TRUE) : sid \in SessionIdArgs \cup {JNum(7)} }
    \cup { DeepBody(JStr(TheSession), ins, FALSE) : ins \in Instants }
    \cup { DeepBody(Undefined, JsonNull, FALSE), JArr(<<>>) }

----------------------------------------------------------------------------
(* stripe/create-checkout-session/route.ts.  URLs are sequences of pieces  *)
(* ("https://app", "/", "?", ...), a piece standing for its characters.    *)

(* mustEnv(name) returns; it throws "Missing env: name" otherwise *)
EnvIsSet(e, name) == e[name].t = "string" /\ e[name].s # <<>>

(* new URLSearchParams(query).toString(): key=value joined by "&", the     *)
(* braces of a value percent-encoded.                                      *)
RECURSIVE QueryString(_)
QueryString(query) ==
    IF query = <<>> THEN <<>>
    ELSE <<query[1][1], "=">>
         \o [i \in 1..Len(query[1][2]) |->
                CASE query[1][2][i] = "{" -> "%7B" [] query[1][2][i] = "}" -> "%7D"
                  [] OTHER -> query[1][2][i]]
         \o (IF Len(query) > 1 THEN <<"&">> ELSE <<>>) \o QueryString(Tail(query))

appendQuery(url, query) ==
    url \o <<IF \E i \in 1..Len(url) : url[i] = "?" THEN "&" ELSE "?">> \o QueryString(query)

(* POST up to its first await: the price id, the return path and the two   *)
(* redirect URLs, or the message of the Error thrown on the way.           *)
CheckoutPlan(raw, e) ==
    LET body == IF raw.t \in {"object", "array"} THEN raw ELSE [t |-> "object"]
        given(k) == IF Get(body, k).t = "string" THEN Trim(Get(body, k).s) ELSE <<>>
        returnPath == IF given("returnPath") # <<>> THEN given("returnPath") ELSE <<"/">>
        app == IF EnvIsSet(e, "NEXT_PUBLIC_APP_URL") THEN e.NEXT_PUBLIC_APP_URL.s
               ELSE <<"http://localhost:3000">>
        appUrl == IF app[Len(app)] = "/" THEN SubSeq(app, 1, Len(app) - 1) ELSE app
        base == appUrl \o (IF Head(returnPath) = "/" THEN returnPath ELSE <<"/">> \o returnPath)
    IN  IF given("priceId") = <<>> /\ ~EnvIsSet(e, "STRIPE_PRICE_DEEP_PROOF")
        THEN [error |-> "Missing env: STRIPE_PRICE_DEEP_PROOF"]
        ELSE IF ~EnvIsSet(e, "STRIPE_SECRET_KEY")
        THEN [error |-> "Missing env: STRIPE_SECRET_KEY"]
        ELSE [mode |-> "payment",
              price |-> IF given("priceId") # <<>> THEN given("priceId")
                        ELSE e.STRIPE_PRICE_DEEP_PROOF.s,
              quantity |-> 1,
              allow_promotion_codes |-> TRUE,
              success_url |-> appendQuery(base, << <<"paid", <<"1">> >>,
                                  <<"session_id", <<"{", "CHECKOUT_SESSION_ID", "}">> >> >>),
              cancel_url |-> appendQuery(base, << <<"canceled", <<"1">> >> >>)]

(* What stripeGet and stripePost hand back: the status and the parsed body, *)
(* {raw: text} for a body that is no JSON.                                 *)
StripeResult(status, json) ==
    [ok |-> status \in 200..299, status |-> status,
     json |-> IF json = NotJson THEN [t |-> "object", raw |-> JStr(<<"text">>)] ELSE json]

(* The response after stripePost: 500 with the details, or 200 with the    *)
(* url and the id of the created session as they are.                      *)
CheckoutRespond(created) ==
    IF ~created.ok
    THEN [status |-> 500,
          body |-> [error |-> "Failed to create Stripe Checkout session.", details |-> created.json]]
    ELSE LET createdJson == IF isRecord(created.json) THEN created.json ELSE [t |-> "object"]
         IN  [status |-> 200,
              body |-> JsonObject([url |-> Get(createdJson, "url"), id |-> Get(createdJson, "id")])]

(* STRIPE_PRICE_DEEP_PROOF: unset, the deep-proof price *)
PriceSettings == { Undefined, JStr(<<"price_deep">>) }

(* Bodies of a POST to the checkout endpoint *)
CheckoutBodies ==
    { NotJson, JsonNull, [t |-> "object"],
      [t |-> "object", priceId |-> JNum(1), returnPath |-> JStr(<<"unlock", "?", "x=1">>)],
      [t |-> "object", priceId |-> JStr(<<" ">>)],
      [t |-> "object", priceId |-> JStr(<<" ", "price_other", " ">>)],
      [t |-> "object", priceId |-> JStr(<<"price_gone">>)] }

(* What the provider answers to GET /v1/prices/:id (it knows price_deep    *)
(* and price_other) and to POST /v1/checkout/sessions: the status and the  *)
(* body.                                                                   *)
PriceAnswers(price) ==
    { StripeResult(500, NotJson),
      IF price \in {"price_deep", "price_other"}
      THEN StripeResult(200, [t |-> "object", id |-> JStr(<<price>>)])
      ELSE StripeResult(404, [t |-> "object", error |-> JStr(<<"No such price">>)]) }
CreateAnswers ==
    { StripeResult(200, [t |-> "object", id |-> JStr(<<"cs">>), url |-> JStr(<<"https://checkout">>)]),
      StripeResult(200, [t |-> "object", id |-> JStr(<<"cs">>), url |-> JsonNull]),
      StripeResult(200, NotJson),
      StripeResult(400, [t |-> "object", error |-> JStr(<<"Invalid URL">>)]),
      StripeResult(502, NotJson) }

----------------------------------------------------------------------------
(* unnamed/part_008 (verifyDeepProofPass with the price check) and         *)
(* unnamed/part_012 (GET verify-session, the same checks with a fixed      *)
(* 24 h): `rev` names the revision.                                        *)

PASS_DURATION_HOURS == 24

(* Number(v ?? 0) of a JSON value, as a number or NaN *)
NumberOrZero(v) ==
    CASE v.t \in {"undefined", "null"} -> Fin(0)
      [] v.t = "number" -> Fin(v.v)
      [] v.t = "string" -> StringToNumber(v.s)
      [] v.t = "boolean" -> Fin(IF v.b THEN 1 ELSE 0)
      [] OTHER -> NaN

(* (li.json?.data || []).some((x) => x?.price?.id === expectedPriceId) *)
MatchesPrice(json, expectedPriceId) ==
    LET data == Get(json, "data")
    IN  /\ data.t = "array"
        /\ \E i \in 1..Len(data.items) :
              Get(Get(data.items[i], "price"), "id") = JStr(expectedPriceId)

(* A denial: part_012 answers {paid, reason} with the pass fields null,    *)
(* part_008 returns {ok, paid, reason, passHours}; ok is false only in the *)
(* catch, where the reason is the Error's message.                         *)
Denied(rev, ok, reason, passHours) ==
    IF rev = "part_012"
    THEN [paid |-> FALSE, reason |-> reason, passExpiresAt |-> JsonNull,
          secondsRemaining |-> JsonNull, passHours |-> passHours]
    ELSE [ok |-> ok, paid |-> FALSE, reason |-> reason, passHours |-> passHours]

(* The checks after the session lookup, up to the line-items lookup: a     *)
(* denial, or "go on".                                                     *)
AfterSessionLookup(rev, sess, passHours) ==
    IF ~sess.ok THEN Denied(rev, TRUE, "session_lookup_failed", passHours)
    ELSE IF Coalesce(Get(sess.json, "payment_status"), JStr("unknown")) # JStr("paid")
    THEN [payment_status |-> Coalesce(Get(sess.json, "payment_status"), JStr("unknown"))]
            @@ Denied(rev, TRUE, "not_paid", passHours)
    ELSE [goOn |-> TRUE]

(* The checks after the line-items lookup: the price, the creation time,   *)
(* the expiry.                                                             *)
SkipPriceCheck(rev, sess, li, expectedPriceId, passHours, t) ==
    LET createdSec == NumberOrZero(Get(sess.json, "created"))
        passExpiresAt == createdSec.v * 1000 + passHours * 60 * 60 * 1000
        floored == (passExpiresAt - t) \div 1000
        secondsRemaining == IF floored > 0 THEN floored ELSE 0
    IN  IF ~li.ok THEN Denied(rev, TRUE, "line_items_lookup_failed", passHours)
        ELSE IF ~IsFinite(createdSec) \/ createdSec.v = 0
        THEN Denied(rev, TRUE, "missing_created_timestamp", passHours)
        ELSE IF secondsRemaining <= 0
        THEN Denied(rev, TRUE, "expired", passHours)
        ELSE [paid |-> TRUE, passExpiresAt |-> JNum(passExpiresAt),
              secondsRemaining |-> JNum(secondsRemaining), passHours |-> passHours]
AfterLineItemsLookup(rev, sess, li, expectedPriceId, passHours, t) ==
    LET createdSec == NumberOrZero(Get(sess.json, "created"))
        passExpiresAt == createdSec.v * 1000 + passHours * 60 * 60 * 1000
        floored == (passExpiresAt - t) \div 1000
        secondsRemaining == IF floored > 0 THEN floored ELSE 0
    IN  IF ~li.ok THEN Denied(rev, TRUE, "line_items_lookup_failed", passHours)
        ELSE IF ~MatchesPrice(li.json, expectedPriceId) THEN Denied(rev, TRUE, "wrong_price", passHours)
        ELSE IF ~IsFinite(createdSec) \/ createdSec.v = 0
        THEN Denied(rev, TRUE, "missing_created_timestamp", passHours)
        ELSE IF secondsRemaining <= 0
        THEN IF rev = "part_012"
             THEN [paid |-> FALSE, reason |-> "expired", passExpiresAt |-> JNum(passExpiresAt),
                   secondsRemaining |-> JNum(secondsRemaining), passHours |-> passHours]
             ELSE Denied(rev, TRUE, "expired", passHours)
        ELSE IF rev = "part_012"
        THEN [paid |-> TRUE, passExpiresAt |-> JNum(passExpiresAt),
              secondsRemaining |-> JNum(secondsRemaining), passHours |-> passHours]
        ELSE [ok |-> TRUE, paid |-> TRUE, passExpiresAt |-> JNum(passExpiresAt),
              secondsRemaining |-> JNum(secondsRemaining), passHours |-> passHours]

(* The provider's checkout session in these revisions: payment_status,     *)
(* status, created, and the price of its one line item.                    *)
CheckoutSessions ==
    [payment_status : {JStr("paid"), JStr("unpaid"), JStr("no_payment_required")},
     status : {JStr("complete"), JStr("open")},
     created : {Undefined, JNum(1), JStr(<<"1">>)},
     price : {"price_deep", "price_other"}]

(* Answers to GET /v1/checkout/sessions/:id and to its line_items *)
SessionAnswers(session) ==
    { StripeResult(200, [t |-> "object", payment_status |-> session.payment_status,
                         status |-> session.status, created |-> session.created]),
      StripeResult(200, NotJson),
      StripeResult(404, [t |-> "object", error |-> JStr(<<"No such session">>)]) }
LineItemAnswers(session) ==
    LET item(p) == [t |-> "object", price |-> [t |-> "object", id |-> JStr(<<p>>)]]
    IN  { StripeResult(200, [t |-> "object", data |-> JArr(<<item(session.price)>>)]),
          StripeResult(200, [t |-> "object", data |-> JArr(<<item("price_extra"), item(session.price)>>)]),
          StripeResult(200, [t |-> "object", data |-> JArr(<<[t |-> "object", price |-> JsonNull]>>)]),
          StripeResult(200, NotJson),
          StripeResult(500, NotJson) }

(* OPENAI_API_KEY: unset, empty, set *)
OpenAiKeySettings == { Undefined, JStr(<<>>), JStr(<<"k">>) }

(* Bodies of a POST to the instant endpoint *)
InstantBodies ==
    { NotJson, JsonNull, JStr(<<"x">>), JNum(7), JArr(<<>>), [t |-> "object"],
      [t |-> "object", lane |-> JStr(<<" ", "B", "2", "B", " ">>),
       notes |-> JStr(<<"L", "O", "C", "A", "L">>),
       avoidMicroNiches |-> JArr(<<JStr(<<" ", "a">>), JNum(1)>>)] }

(* What the language model may answer with, parsed *)
ParsedCompletions ==
    LET N == JStr(<<"n">>)
        With(o, k, v) == [x \in DOMAIN o \cup {k} |-> IF x = k THEN v ELSE o[x]]
        Obj == [t |-> "object"]
        List == JArr(<<JStr(<<" ", "a", " ">>), JsonNull, JStr(<<" ">>), JNum(3)>>)
        Full == [t |-> "object", microNiche |-> JStr(<<" ", "n", " ">>),
                 coreProblem |-> JStr(<<"p">>),
                 firstService |-> [t |-> "object", name |-> JStr(<<"s">>), outcome |-> JStr(<<"o">>)],
                 buyerPlaces |-> List, oneActionToday |-> JStr(<<"d">>),
                 meta |-> [t |-> "object", lane |-> JStr(<<"l">>),
                           confidence |-> JStr(<<"H", "i", "g", "h">>),
                           confidenceWhy |-> JStr(<<"w">>), confidenceDrivers |-> List,
                           confidenceRaise |-> JArr(<<>>), gatesPassed |-> JStr(<<"g">>)]]
        Confidences == { Undefined, JsonNull, JNum(7), JStr(<<"H", "i", "g", "h">>),
                         JStr(<<" ", "L", "o", "w", " ">>), JStr(<<"h", "i", "g", "h">>),
                         JStr(<<>>), JStr(Medium) }
    IN  { JsonNull, N, JNum(0), JNum(5), JBool(TRUE), JArr(<<>>), JArr(<<N>>), Obj, Full }
        \cup { With(Obj, "microNiche", v) :
                   v \in { JStr(<<" ">>), JNum(5), JNum(0), JBool(FALSE), Obj, JArr(<<>>),
                           JArr(<<JsonNull>>), JArr(<<N, N>>) } }
        \cup { With(With(Obj, "microNiche", v), "name", N) : v \in { JStr(<<>>), JsonNull } }
        \cup { With(Obj, k, N) : k \in { "micro_niche", "name", "coreProblem" } }
        \cup { With(With(Obj, "name", N), "meta", With(Obj, "confidence", c)) : c \in Confidences }
        \cup { With(With(With(Obj, "name", N), "meta", m), "confidence", c) :
                   m \in { JsonNull, N, With(Obj, "confidenceWhy", JStr(<<" ">>)) },
                   c \in Confidences }
        \cup { With(With(Obj, "name", N), k, v) :
                   k \in { "buyerPlaces", "buyer_places", "channel" },
                   v \in { List, N, JNum(5), JStr(<<" ">>) } }

(* The completions: no text, fences only, no JSON (at and over the excerpt's *)
(* limit), and JSON values.                                                *)
Completions ==
    { Text(0, Blank), Text(7, Blank), Text(RawLimit, NotJson), Text(RawLimit + 1, NotJson) }
    \cup { Text(n, x) : n \in {40, 5000}, x \in ParsedCompletions }

----------------------------------------------------------------------------
(* State *)

NoGrant == [at |-> -1, value |-> PassFail("")]
NoResponse == [kind |-> "none"]
Idle == [pc |-> "idle"]

(* The state after the module is loaded, for every configuration and     *)
(* every session the provider may hold, one request at a time.            *)
Init ==
    /\ env \in [DEEP_PASS_HOURS : PassHoursSettings, STRIPE_SECRET_KEY : SecretSettings]
    /\ provider \in [SessionIds -> [payment_status : PaymentStatusSettings, created : CreatedSettings]]
    /\ scenario = [slots |-> {1}, errors |-> LookupErrors]
    /\ now \in { PassExpiresAtOf(c.v, getPassHours(env)) - off :
                    c \in CreatedSettings \ {Undefined}, off \in StartOffsets }
    /\ ticks = 0
    /\ cache = << >>
    /\ calls = [c \in Calls |-> Idle]
    /\ last = NoResponse
    /\ lastGrant = [id \in SessionIds |-> NoGrant]
    /\ expiredDenied = {}

(* The same, with two requests that may overlap, for one configuration    *)
(* (DEEP_PASS_HOURS " 2 ", the secret key set).                            *)
InitOverlap ==
    /\ env = [DEEP_PASS_HOURS |-> JStr(<<" ", "2", " ">>), STRIPE_SECRET_KEY |-> JStr(<<"s", "k">>)]
    /\ provider \in [SessionIds -> [payment_status : {JStr("unpaid"), JStr("paid")},
                                    created : CreatedSettings]]
    /\ scenario = [slots |-> Calls, errors |-> {"fetch failed"}]
    /\ now \in { PassExpiresAtOf(c.v, getPassHours(env)) - off :
                    c \in CreatedSettings \ {Undefined}, off \in StartOffsets }
    /\ ticks = 0
    /\ cache = << >>
    /\ calls = [c \in Calls |-> Idle]
    /\ last = NoResponse
    /\ lastGrant = [id \in SessionIds |-> NoGrant]
    /\ expiredDenied = {}

(* Date.now() moves on. *)
Tick(d) ==
    /\ last = NoResponse
    /\ ticks < MaxTicks
    /\ now' = now + d
    /\ ticks' = ticks + 1
    /\ last' = NoResponse
    /\ UNCHANGED <<env, scenario, provider, cache, calls, lastGrant, expiredDenied>>

(* The customer completes the payment of a checkout session; a record that *)
(* keeps the instant of the payment (paidAt) gets it.                      *)
Pay(id) ==
    /\ last = NoResponse
    /\ provider[id].payment_status = JStr("unpaid")
    /\ provider' = [provider EXCEPT ![id] =
            [k \in DOMAIN @ |-> IF k = "payment_status" THEN JStr("paid")
                                ELSE IF k = "paidAt" THEN now ELSE @[k]]]
    /\ last' = NoResponse
    /\ UNCHANGED <<env, scenario, now, ticks, cache, calls, lastGrant, expiredDenied>>

(* A response as the claims see it, at the moment (now) it is produced:    *)
(* what was asked, the verifier's result, where it came from ("memo" or    *)
(* "provider", with the lookup's answer; "none" for neither), the HTTP     *)
(* response of the deep endpoint, and the session's history before it.     *)
Response(kind, paidHint, id, src, resp, result) ==
    [kind |-> kind, paidHint |-> paidHint, id |-> id, src |-> src, resp |-> resp,
     result |-> result,
     http |-> IF kind = "deep" THEN DeepRespond(result)
              ELSE IF kind = "session" THEN VerifySessionRespond(result)
              ELSE [status |-> 0],
     prevGrant |-> IF id \in SessionIds THEN lastGrant[id] ELSE NoGrant,
     afterExpired |-> id \in expiredDenied]

(* A new request takes the first free slot. *)
FirstFree(c) ==
    /\ last = NoResponse
    /\ c \in scenario.slots
    /\ calls[c].pc = "idle"
    /\ \A o \in scenario.slots : calls[o].pc = "idle" => ~(o < c)

(* verifyDeepProofPass up to its await: the empty id, the memo, the secret *)
(* key; on a miss the lookup is sent.                                      *)
VerifyBegin(c, kind, paidHint, arg) ==
    LET id == Trim(IF arg.t = "string" THEN arg.s ELSE <<>>)
        secret == IF env.STRIPE_SECRET_KEY.t = "string" THEN Trim(env.STRIPE_SECRET_KEY.s) ELSE <<>>
    IN  IF id = <<>>
        THEN /\ last' = Response(kind, paidHint, id, "none", Thrown(""), PassFail("Missing session id."))
             /\ UNCHANGED <<cache, calls>>
        ELSE IF CacheHit(cache, id, now)
        THEN /\ last' = Response(kind, paidHint, id, "memo", Thrown(""), cache[id].value)
             /\ UNCHANGED <<cache, calls>>
        ELSE /\ cache' = CacheAfterGet(cache, id, now)
             /\ last' = NoResponse
             /\ calls' = [calls EXCEPT ![c] =
                    IF secret = <<>>
                    THEN [pc |-> "resume", kind |-> kind, paidHint |-> paidHint, id |-> id,
                          resp |-> Thrown("Missing STRIPE_SECRET_KEY")]
                    ELSE [pc |-> "await", kind |-> kind, paidHint |-> paidHint, id |-> id]]

(* A direct call of verifyDeepProofPass(sessionId). *)
Verify(c, arg) ==
    /\ FirstFree(c)
    /\ VerifyBegin(c, "verify", FALSE, arg)
    /\ UNCHANGED <<env, scenario, now, ticks, provider, lastGrant, expiredDenied>>

(* POST /api/generate/deep: the body checks, then the pass. *)
DeepPost(c, body) ==
    /\ FirstFree(c)
    /\ IF ~isRecord(body)
       THEN /\ last' = [kind |-> "deep", src |-> "none", id |-> <<>>,
                        http |-> BadRequest("Invalid JSON body.")]
            /\ UNCHANGED <<cache, calls>>
       ELSE IF ~InstantOk(Get(body, "instant"))
       THEN /\ last' = [kind |-> "deep", src |-> "none",
                        id |-> Trim(getStringOrEmpty(Get(body, "sessionId"))),
                        http |-> BadRequest("Missing/invalid instant payload.")]
            /\ UNCHANGED <<cache, calls>>
       ELSE VerifyBegin(c, "deep", body.paid, JStr(getStringOrEmpty(body.sessionId)))
    /\ UNCHANGED <<env, scenario, now, ticks, provider, lastGrant, expiredDenied>>

(* GET /api/stripe/verify-session?session_id=...: the parameter or "",    *)
(* then the pass.                                                          *)
VerifySessionGet(c, q) ==
    /\ FirstFree(c)
    /\ VerifyBegin(c, "session", FALSE, IF q.t = "null" THEN JStr(<<>>) ELSE q)
    /\ UNCHANGED <<env, scenario, now, ticks, provider, lastGrant, expiredDenied>>

(* The provider answers 2xx with the session as it is now. *)
LookupAnswers(c) ==
    /\ last = NoResponse
    /\ calls[c].pc = "await"
    /\ calls[c].id \in DOMAIN provider
    /\ calls' = [calls EXCEPT ![c] =
            [pc |-> "resume", kind |-> calls[c].kind, paidHint |-> calls[c].paidHint,
             id |-> calls[c].id,
             resp |-> Returned(JsonSession(provider[calls[c].id].payment_status,
                                           provider[calls[c].id].created))]]
    /\ last' = NoResponse
    /\ UNCHANGED <<env, scenario, now, ticks, provider, cache, lastGrant, expiredDenied>>

(* The provider answers 2xx with a body that is no JSON. *)
LookupGarbled(c) ==
    /\ last = NoResponse
    /\ calls[c].pc = "await"
    /\ calls' = [calls EXCEPT ![c] =
            [pc |-> "resume", kind |-> calls[c].kind, paidHint |-> calls[c].paidHint,
             id |-> calls[c].id, resp |-> Returned(JsonNull)]]
    /\ last' = NoResponse
    /\ UNCHANGED <<env, scenario, now, ticks, provider, cache, lastGrant, expiredDenied>>

(* The lookup throws: fetch rejects, the answer is non-2xx, or it times out. *)
LookupFails(c, msg) ==
    /\ last = NoResponse
    /\ calls[c].pc = "await"
    /\ msg \in scenario.errors
    /\ calls' = [calls EXCEPT ![c] =
            [pc |-> "resume", kind |-> calls[c].kind, paidHint |-> calls[c].paidHint,
             id |-> calls[c].id, resp |-> Thrown(msg)]]
    /\ last' = NoResponse
    /\ UNCHANGED <<env, scenario, now, ticks, provider, cache, lastGrant, expiredDenied>>

(* The provider has not answered 7 s after the lookup was sent: the        *)
(* AbortSignal fires and fetch rejects.                                    *)
LookupTimesOut(c) ==
    /\ last = NoResponse
    /\ calls[c].pc = "await"
    /\ now' = now + LookupTimeoutMs
    /\ ticks' = ticks + 1
    /\ calls' = [calls EXCEPT ![c] =
            [pc |-> "resume", kind |-> calls[c].kind, paidHint |-> calls[c].paidHint,
             id |-> calls[c].id, resp |-> Thrown("The operation was aborted due to timeout")]]
    /\ last' = NoResponse
    /\ UNCHANGED <<env, scenario, provider, cache, lastGrant, expiredDenied>>

(* verifyDeepProofPass after its await: decide, memoize, return. *)
VerifyFinish(c) ==
    /\ last = NoResponse
    /\ calls[c].pc = "resume"
    /\ LET id == calls[c].id
           d == Decide(calls[c].resp, env, now)
       IN  /\ cache' = cacheSet(cache, id, d.out, d.ttl, now)
           /\ last' = Response(calls[c].kind, calls[c].paidHint, id, "provider", calls[c].resp, d.out)
           /\ lastGrant' = IF d.out.ok /\ id \in SessionIds
                           THEN [lastGrant EXCEPT ![id] = [at |-> now, value |-> d.out]]
                           ELSE lastGrant
           /\ expiredDenied' = IF d.out = PassFail("Pass expired.")
                               THEN expiredDenied \cup {id} ELSE expiredDenied
    /\ calls' = [calls EXCEPT ![c] = Idle]
    /\ UNCHANGED <<env, scenario, now, ticks, provider>>

(* The response goes out to the caller. *)
Deliver ==
    /\ last # NoResponse
    /\ last' = NoResponse
    /\ UNCHANGED <<env, scenario, now, ticks, provider, cache, calls, lastGrant, expiredDenied>>

(* POST /api/generate/instant, the stub: the body check, then the result. *)
InstantStubPost(c, raw) ==
    /\ FirstFree(c)
    /\ LET body == IF raw = NotJson THEN JsonNull ELSE raw
       IN  last' = [kind |-> "instant", rev |-> "stub", body |-> raw, upstream |-> 0,
                    http |-> IF ~isRecord(body) THEN BadRequest("Invalid JSON body.")
                             ELSE [status |-> 200, body |-> StubResult(body, now)]]
    /\ UNCHANGED <<env, scenario, now, ticks, provider, cache, calls, lastGrant, expiredDenied>>

(* POST /api/generate/instant, model-backed, up to the await of the        *)
(* completion: a body that is no JSON reads as {}, reading body.lane of    *)
(* null throws into the catch, a missing key answers 500.                  *)
InstantModelPost(c, raw) ==
    /\ FirstFree(c)
    /\ LET body == IF raw = NotJson THEN [t |-> "object"] ELSE raw
           key == env.OPENAI_API_KEY
           failed(msg) == [kind |-> "instant", rev |-> "model", body |-> raw, upstream |-> 0,
                           http |-> [status |-> 500, body |-> [ok |-> FALSE, error |-> msg]]]
       IN  IF body.t = "null"
           THEN /\ last' = failed("Cannot read properties of null (reading 'lane')")
                /\ UNCHANGED calls
           ELSE IF key.t # "string" \/ key.s = <<>>
           THEN /\ last' = failed("Missing OPENAI_API_KEY")
                /\ UNCHANGED calls
           ELSE /\ last' = NoResponse
                /\ calls' = [calls EXCEPT ![c] =
                        [pc |-> "completion", kind |-> "instant", body |-> raw,
                         lane |-> StrTrim(Get(body, "lane"), JStr(<<>>))]]
    /\ UNCHANGED <<env, scenario, now, ticks, provider, cache, lastGrant, expiredDenied>>

(* The language model answers: parse, normalize, respond. *)
CompletionReturns(c, content) ==
    /\ last = NoResponse
    /\ calls[c].pc = "completion"
    /\ last' = [kind |-> "instant", rev |-> "model", body |-> calls[c].body, upstream |-> 1,
                content |-> content, lane |-> calls[c].lane,
                http |-> InstantRespond(content, calls[c].lane)]
    /\ calls' = [calls EXCEPT ![c] = Idle]
    /\ UNCHANGED <<env, scenario, now, ticks, provider, cache, lastGrant, expiredDenied>>

(* The call of the language model throws: the catch answers 500. *)
CompletionThrows(c) ==
    /\ last = NoResponse
    /\ calls[c].pc = "completion"
    /\ last' = [kind |-> "instant", rev |-> "model", body |-> calls[c].body, upstream |-> 1,
                http |-> [status |-> 500, body |-> [ok |-> FALSE, error |-> "Connection error."]]]
    /\ calls' = [calls EXCEPT ![c] = Idle]
    /\ UNCHANGED <<env, scenario, now, ticks, provider, cache, lastGrant, expiredDenied>>

(* POST /api/stripe/create-checkout-session up to the await of the price  *)
(* lookup; an Error thrown before it is answered 500 by the catch.         *)
CheckoutPost(c, raw) ==
    /\ FirstFree(c)
    /\ LET plan == CheckoutPlan(raw, env)
       IN  IF "error" \in DOMAIN plan
           THEN /\ last' = [kind |-> "checkout", body |-> raw, stage |-> "start",
                            http |-> [status |-> 500, body |-> [error |-> plan.error]]]
                /\ UNCHANGED calls
           ELSE /\ last' = NoResponse
                /\ calls' = [calls EXCEPT ![c] =
                        [pc |-> "price", kind |-> "checkout", body |-> raw, params |-> plan]]
    /\ UNCHANGED <<env, scenario, now, ticks, provider, cache, lastGrant, expiredDenied>>

(* The price lookup is answered: 500 on a non-2xx answer, else the session *)
(* creation is sent.                                                       *)
PriceChecked(c, priceCheck) ==
    /\ last = NoResponse
    /\ calls[c].pc = "price"
    /\ priceCheck \in PriceAnswers(calls[c].params.price[1])
    /\ IF ~priceCheck.ok
       THEN /\ last' = [kind |-> "checkout", body |-> calls[c].body, stage |-> "price",
                        http |-> [status |-> 500,
                                  body |-> [error |-> "Stripe price lookup failed. Check STRIPE_PRICE_DEEP_PROOF + mode (test vs live).",
                                            details |-> priceCheck.json]]]
            /\ calls' = [calls EXCEPT ![c] = Idle]
       ELSE /\ last' = NoResponse
            /\ calls' = [calls EXCEPT ![c].pc = "create"]
    /\ UNCHANGED <<env, scenario, now, ticks, provider, cache, lastGrant, expiredDenied>>

(* The session creation is answered; a 2xx answer means the provider holds *)
(* a new checkout session for the price and the URLs that were sent.       *)
SessionCreated(c, created) ==
    /\ last = NoResponse
    /\ calls[c].pc = "create"
    /\ created \in CreateAnswers
    /\ provider' = IF created.ok THEN provider \cup {calls[c].params} ELSE provider
    /\ last' = [kind |-> "checkout", body |-> calls[c].body, stage |-> "create",
                created |-> created, http |-> CheckoutRespond(created)]
    /\ calls' = [calls EXCEPT ![c] = Idle]
    /\ UNCHANGED <<env, scenario, now, ticks, cache, lastGrant, expiredDenied>>

(* fetch rejects (the network fails) in stripeGet or stripePost: the catch *)
(* answers 500.                                                            *)
CheckoutFetchRejects(c) ==
    /\ last = NoResponse
    /\ calls[c].pc \in {"price", "create"}
    /\ last' = [kind |-> "checkout", body |-> calls[c].body, stage |-> calls[c].pc,
                http |-> [status |-> 500, body |-> [error |-> "fetch failed"]]]
    /\ calls' = [calls EXCEPT ![c] = Idle]
    /\ UNCHANGED <<env, scenario, now, ticks, provider, cache, lastGrant, expiredDenied>>

(* The price-checking verification starts: part_012's GET reads the query  *)
(* and the expected price from the environment, part_008's verifier takes  *)
(* them from its caller (passHours ?? 24); then the session lookup is sent *)
(* unless mustEnv throws.                                                  *)
PriceCheckBegin(c, rev, sessionId, hours) ==
    /\ FirstFree(c)
    /\ LET passHours == IF rev = "part_012" THEN PASS_DURATION_HOURS
                        ELSE Coalesce(hours, JNum(24)).v
           missing == IF rev = "part_012"
                      THEN sessionId \in {JsonNull, JStr(<<>>)}
                      ELSE Trim(ToStr(Coalesce(sessionId, JStr(<<>>)))) = <<>>
           expected == IF rev = "part_012" THEN env.STRIPE_PRICE_DEEP_PROOF
                       ELSE JStr(<<"price_deep">>)
           answer(stage, verdict) ==
               [kind |-> "pricecheck", rev |-> rev, id |-> sessionId, stage |-> stage,
                expected |-> expected, sess |-> StripeResult(0, NotJson),
                li |-> StripeResult(0, NotJson), verdict |-> verdict]
       IN  IF missing
           THEN /\ last' = answer("id", Denied(rev, TRUE, "missing_session_id", passHours))
                /\ UNCHANGED calls
           ELSE IF rev = "part_012" /\ ~EnvIsSet(env, "STRIPE_PRICE_DEEP_PROOF")
           THEN /\ last' = answer("env", Denied(rev, FALSE, "Missing env: STRIPE_PRICE_DEEP_PROOF", passHours))
                /\ UNCHANGED calls
           ELSE IF ~EnvIsSet(env, "STRIPE_SECRET_KEY")
           THEN /\ last' = answer("env", Denied(rev, FALSE, "Missing env: STRIPE_SECRET_KEY", passHours))
                /\ UNCHANGED calls
           ELSE /\ last' = NoResponse
                /\ calls' = [calls EXCEPT ![c] =
                        [pc |-> "session", kind |-> "pricecheck", rev |-> rev, id |-> sessionId,
                         expected |-> expected, passHours |-> passHours]]
    /\ UNCHANGED <<env, scenario, now, ticks, provider, cache, lastGrant, expiredDenied>>

(* The session lookup is answered (never with a 2xx for an id the provider *)
(* does not know): a denial, or the line-items lookup is sent.             *)
SessionLooked(c, sess) ==
    /\ last = NoResponse
    /\ calls[c].pc = "session"
    /\ calls[c].kind = "pricecheck"
    /\ calls[c].id = JStr(TheSession) \/ ~sess.ok
    /\ LET r == calls[c]
           v == AfterSessionLookup(r.rev, sess, r.passHours)
       IN  IF "paid" \in DOMAIN v
           THEN /\ last' = [kind |-> "pricecheck", rev |-> r.rev, id |-> r.id, stage |-> "session",
                            expected |-> r.expected, sess |-> sess,
                            li |-> StripeResult(0, NotJson), verdict |-> v]
                /\ calls' = [calls EXCEPT ![c] = Idle]
           ELSE /\ last' = NoResponse
                /\ calls' = [calls EXCEPT ![c] =
                        [pc |-> "items", kind |-> "pricecheck", rev |-> r.rev, id |-> r.id,
                         expected |-> r.expected, passHours |-> r.passHours, sess |-> sess]]
    /\ UNCHANGED <<env, scenario, now, ticks, provider, cache, lastGrant, expiredDenied>>

(* The line-items lookup is answered: the remaining checks, at Date.now(). *)
LineItemsLooked(c, li) ==
    /\ last = NoResponse
    /\ calls[c].pc = "items"
    /\ LET r == calls[c]
       IN  last' = [kind |-> "pricecheck", rev |-> r.rev, id |-> r.id, stage |-> "items",
                    expected |-> r.expected, sess |-> r.sess, li |-> li,
                    verdict |-> AfterLineItemsLookup(r.rev, r.sess, li, r.expected.s, r.passHours, now)]
    /\ calls' = [calls EXCEPT ![c] = Idle]
    /\ UNCHANGED <<env, scenario, now, ticks, provider, cache, lastGrant, expiredDenied>>

(* fetch rejects in either lookup: the catch answers with the message. *)
PriceCheckRejects(c) ==
    /\ last = NoResponse
    /\ calls[c].pc \in {"session", "items"}
    /\ calls[c].kind = "pricecheck"
    /\ LET r == calls[c]
       IN  last' = [kind |-> "pricecheck", rev |-> r.rev, id |-> r.id, stage |-> "throw",
                    expected |-> r.expected,
                    sess |-> IF r.pc = "items" THEN r.sess ELSE StripeResult(0, NotJson),
                    li |-> StripeResult(0, NotJson),
                    verdict |-> Denied(r.rev, FALSE, "fetch failed", r.passHours)]
    /\ calls' = [calls EXCEPT ![c] = Idle]
    /\ UNCHANGED <<env, scenario, now, ticks, provider, cache, lastGrant, expiredDenied>>

(* unnamed/part_007: verifyDeepProofPass of the SDK revision starts. *)
SdkVerify(c, sessionId) ==
    /\ FirstFree(c)
    /\ LET answer(reason) ==
               [kind |-> "sdk", id |-> sessionId, stage |-> "start",
                status |-> [ok |-> FALSE, paid |-> FALSE, reason |-> reason]]
       IN  IF sessionId.t # "string" \/ Trim(sessionId.s) = <<>>
           THEN /\ last' = answer("Missing session_id")
                /\ UNCHANGED calls
           ELSE IF Trim(ToStr(Coalesce(env.STRIPE_SECRET_KEY, JStr(<<>>)))) = <<>>
           THEN /\ last' = answer("Missing STRIPE_SECRET_KEY")
                /\ UNCHANGED calls
           ELSE /\ last' = NoResponse
                /\ calls' = [calls EXCEPT ![c] = [pc |-> "session", kind |-> "sdk", id |-> sessionId]]
    /\ UNCHANGED <<env, scenario, now, ticks, provider, cache, lastGrant, expiredDenied>>

(* stripe.checkout.sessions.retrieve settles: it throws on an answer that  *)
(* is no 2xx, else the session decides.  part_007's getPassHours trims and *)
(* reads DEEP_PASS_HOURS to the same number as getPassHours above.         *)
SdkRetrieved(c, res) ==
    /\ last = NoResponse
    /\ calls[c].pc = "session"
    /\ calls[c].kind = "sdk"
    /\ LET session == res.json
           paid == \/ Get(session, "payment_status") = JStr("paid")
                   \/ Get(session, "status") = JStr("complete")
           created == Get(session, "created")
           hasExpiry == created.t = "number" /\ created.v # 0
           expiresAt == (created.v + getPassHours(env) * 3600) * 1000
           secondsRemaining == (expiresAt - now) \div 1000
           pass == IF hasExpiry
                   THEN [passExpiresAt |-> JNum(expiresAt), secondsRemaining |-> JNum(secondsRemaining)]
                   ELSE [passExpiresAt |-> Undefined, secondsRemaining |-> Undefined]
           status ==
               IF ~res.ok
               THEN [ok |-> FALSE, paid |-> FALSE, reason |-> "Stripe retrieve failed"]
               ELSE IF ~paid
               THEN [ok |-> FALSE, paid |-> FALSE, reason |-> "Not paid"] @@ pass
               ELSE IF hasExpiry /\ secondsRemaining <= 0
               THEN [ok |-> FALSE, paid |-> FALSE, reason |-> "Expired"] @@ pass
               ELSE [ok |-> TRUE, paid |-> TRUE] @@ pass
       IN  last' = [kind |-> "sdk", id |-> calls[c].id, stage |-> "session", sess |-> res,
                    status |-> status]
    /\ calls' = [calls EXCEPT ![c] = Idle]
    /\ UNCHANGED <<env, scenario, now, ticks, provider, cache, lastGrant, expiredDenied>>

(* unnamed/part_012, the bare revision of GET verify-session, starts. *)
BareVerifyGet(c, sessionId) ==
    /\ FirstFree(c)
    /\ LET answer(code, reason) ==
               [kind |-> "bare", id |-> sessionId, stage |-> "start",
                http |-> [status |-> code, body |-> [ok |-> FALSE, reason |-> reason]]]
       IN  IF Trim(ToStr(Coalesce(env.STRIPE_SECRET_KEY, JStr(<<>>)))) = <<>>
           THEN /\ last' = answer(500, "Missing STRIPE_SECRET_KEY")
                /\ UNCHANGED calls
           ELSE IF Trim(ToStr(Coalesce(sessionId, JStr(<<>>)))) = <<>>
           THEN /\ last' = answer(400, "Missing session_id")
                /\ UNCHANGED calls
           ELSE /\ last' = NoResponse
                /\ calls' = [calls EXCEPT ![c] = [pc |-> "session", kind |-> "bare", id |-> sessionId]]
    /\ UNCHANGED <<env, scenario, now, ticks, provider, cache, lastGrant, expiredDenied>>

(* Its stripeGet settles: it throws on an answer that is no 2xx and when   *)
(* the fetch rejects or times out (res.ok = FALSE here), and hands back    *)
(* null for a body that is no JSON.                                        *)
BareRetrieved(c, res) ==
    /\ last = NoResponse
    /\ calls[c].pc = "session"
    /\ calls[c].kind = "bare"
    /\ LET session == IF "raw" \in DOMAIN res.json THEN JsonNull ELSE res.json
           paid == \/ Get(session, "payment_status") = JStr("paid")
                   \/ Get(session, "status") = JStr("complete")
       IN  last' = [kind |-> "bare", id |-> calls[c].id, stage |-> "session", sess |-> res,
                    http |-> IF ~res.ok
                             THEN [status |-> 500, body |-> [ok |-> FALSE, reason |-> "Stripe error"]]
                             ELSE [status |-> 200,
                                   body |-> [ok |-> TRUE, paid |-> paid,
                                             status |-> Coalesce(Get(session, "status"), JsonNull),
                                             payment_status |-> Coalesce(Get(session, "payment_status"), JsonNull)]]]
    /\ calls' = [calls EXCEPT ![c] = Idle]
    /\ UNCHANGED <<env, scenario, now, ticks, provider, cache, lastGrant, expiredDenied>>

(* unnamed/part_011, GET verify-session: the body it answers (always with  *)
(* 200) for a session the provider holds, the lookups succeeding.          *)
PaidPayload(session, e) ==
    IF ~EnvIsSet(e, "STRIPE_PRICE_DEEP_PROOF")
    THEN [t |-> "object", paid |-> JBool(FALSE), reason |-> JStr(<<"Missing env: STRIPE_PRICE_DEEP_PROOF">>)]
    ELSE IF ~EnvIsSet(e, "STRIPE_SECRET_KEY")
    THEN [t |-> "object", paid |-> JBool(FALSE), reason |-> JStr(<<"Missing env: STRIPE_SECRET_KEY">>)]
    ELSE IF session.payment_status # JStr("paid")
    THEN [t |-> "object", paid |-> JBool(FALSE), reason |-> JStr(<<"not_paid">>),
          payment_status |-> session.payment_status]
    ELSE [t |-> "object", paid |-> JBool(<<session.price>> = e.STRIPE_PRICE_DEEP_PROOF.s)]

(* unnamed/part_010, verifyDeepProofPass after its fetch of verify-session: *)
(* the result and the ttl it is memoized with.                             *)
DelegatedDecide(ok, payload, e, t) ==
    IF ~ok THEN [out |-> PassFail("verify-session failed"), ttl |-> TtlLookupFailed]
    ELSE IF ~Truthy(Get(payload, "paid"))
    THEN [out |-> PassFail("Payment not completed."), ttl |-> TtlDenied]
    ELSE
        LET passExpiresAt == IF Get(payload, "passExpiresAt").t = "number"
                             THEN Get(payload, "passExpiresAt").v
                             ELSE t + getPassHours(e) * MsPerHour
            secondsRemaining == IF Get(payload, "secondsRemaining").t = "number"
                                THEN clampSeconds(Get(payload, "secondsRemaining").v * MsPerSecond)
                                ELSE clampSeconds(passExpiresAt - t)
        IN  IF secondsRemaining <= 0
            THEN [out |-> PassFail("Pass expired."), ttl |-> TtlDenied]
            ELSE [out |-> PassOk(passExpiresAt, secondsRemaining), ttl |-> TtlGranted]

(* part_010's verifyDeepProofPass up to its await: the empty id, the memo, *)
(* the base URL ((NEXT_PUBLIC_APP_URL ?? APP_URL ?? "") trimmed and        *)
(* without its trailing slashes); then verify-session is fetched.          *)
DelegatedVerify(c, arg) ==
    /\ FirstFree(c)
    /\ LET id == Trim(IF arg.t = "string" THEN arg.s ELSE <<>>)
           url == Trim(Coalesce(env.NEXT_PUBLIC_APP_URL, Coalesce(env.APP_URL, JStr(<<>>))).s)
           out == PassFail("Missing APP_URL/NEXT_PUBLIC_APP_URL for server verification.")
       IN  IF id = <<>>
           THEN /\ last' = Response("delegated", FALSE, id, "none", Thrown(""), PassFail("Missing session id."))
                /\ UNCHANGED <<cache, calls>>
           ELSE IF CacheHit(cache, id, now)
           THEN /\ last' = Response("delegated", FALSE, id, "memo", Thrown(""), cache[id].value)
                /\ UNCHANGED <<cache, calls>>
           ELSE IF \A i \in 1..Len(url) : url[i] = "/"
           THEN /\ cache' = cacheSet(CacheAfterGet(cache, id, now), id, out, TtlLookupFailed, now)
                /\ last' = Response("delegated", FALSE, id, "none", Thrown(""), out)
                /\ UNCHANGED calls
           ELSE /\ cache' = CacheAfterGet(cache, id, now)
                /\ last' = NoResponse
                /\ calls' = [calls EXCEPT ![c] = [pc |-> "fetch", kind |-> "delegated", id |-> id]]
    /\ UNCHANGED <<env, scenario, now, ticks, provider, lastGrant, expiredDenied>>

(* The fetch settles (ok = FALSE: it rejected, timed out or was answered   *)
(* with a status that is no 2xx) and part_010 decides, memoizes, returns.  *)
EndpointAnswered(c, ok) ==
    /\ last = NoResponse
    /\ calls[c].pc = "fetch"
    /\ LET id == calls[c].id
           payload == IF id \in DOMAIN provider THEN PaidPayload(provider[id], env)
                      ELSE [t |-> "object", paid |-> JBool(FALSE),
                            reason |-> JStr(<<"session_lookup_failed">>)]
           d == DelegatedDecide(ok, payload, env, now)
       IN  /\ cache' = cacheSet(cache, id, d.out, d.ttl, now)
           /\ last' = Response("delegated", FALSE, id, "provider", Returned(payload), d.out)
           /\ lastGrant' = IF d.out.ok /\ id \in SessionIds
                           THEN [lastGrant EXCEPT ![id] = [at |-> now, value |-> d.out]]
                           ELSE lastGrant
    /\ calls' = [calls EXCEPT ![c] = Idle]
    /\ UNCHANGED <<env, scenario, now, ticks, provider, expiredDenied>>

Next ==
    \/ \E d \in Deltas : Tick(d)
    \/ \E id \in SessionIds : Pay(id)
    \/ \E c \in Calls, arg \in SessionIdArgs : Verify(c, arg)
    \/ \E c \in Calls, body \in DeepBodies : DeepPost(c, body)
    \/ \E c \in Calls, q \in SessionIdQueries : VerifySessionGet(c, q)
    \/ \E c \in Calls : LookupAnswers(c)
    \/ \E c \in Calls : LookupGarbled(c)
    \/ \E c \in Calls, msg \in LookupErrors : LookupFails(c, msg)
    \/ \E c \in Calls : VerifyFinish(c)
    \/ Deliver

Spec == Init /\ [][Next]_vars

SpecOverlap == InitOverlap /\ [][Next]_vars

(* The instant endpoint, stub and model-backed, one request at a time. *)
InitInstant ==
    /\ env \in [OPENAI_API_KEY : OpenAiKeySettings]
    /\ provider = << >>
    /\ scenario = [slots |-> {1}, errors |-> {}]
    /\ now = 1000
    /\ ticks = 0
    /\ cache = << >>
    /\ calls = [c \in Calls |-> Idle]
    /\ last = NoResponse
    /\ lastGrant = << >>
    /\ expiredDenied = {}

NextInstant ==
    \/ \E d \in Deltas : Tick(d)
    \/ \E c \in Calls, raw \in InstantBodies : InstantStubPost(c, raw)
    \/ \E c \in Calls, raw \in InstantBodies : InstantModelPost(c, raw)
    \/ \E c \in Calls, content \in Completions : CompletionReturns(c, content)
    \/ \E c \in Calls : CompletionThrows(c)
    \/ Deliver

SpecInstant == InitInstant /\ [][NextInstant]_vars

(* The checkout endpoint, one request at a time; `provider` is the set of  *)
(* checkout sessions created so far.                                       *)
InitCheckout ==
    /\ env \in [STRIPE_SECRET_KEY : SecretSettings, STRIPE_PRICE_DEEP_PROOF : PriceSettings,
                 NEXT_PUBLIC_APP_URL : {Undefined, JStr(<<"https://app", "/">>)}]
    /\ provider = {}
    /\ scenario = [slots |-> {1}, errors |-> {}]
    /\ now = 1000
    /\ ticks = 0
    /\ cache = << >>
    /\ calls = [c \in Calls |-> Idle]
    /\ last = NoResponse
    /\ lastGrant = << >>
    /\ expiredDenied = {}

NextCheckout ==
    \/ \E c \in Calls, raw \in CheckoutBodies : CheckoutPost(c, raw)
    \/ \E c \in Calls, p \in {"price_deep", "price_other", "price_gone"} :
            \E res \in PriceAnswers(p) : PriceChecked(c, res)
    \/ \E c \in Calls, res \in CreateAnswers : SessionCreated(c, res)
    \/ \E c \in Calls : CheckoutFetchRejects(c)
    \/ Deliver

SpecCheckout == InitCheckout /\ [][NextCheckout]_vars

(* The other revisions of the verification (part_007, part_008 and the two *)
(* of part_012), one request at a time; `provider` is the checkout session *)
(* the id names, and the process starts shortly before 24 h after its      *)
(* creation.                                                               *)
InitRevisions ==
    /\ env \in [DEEP_PASS_HOURS : {Undefined, JStr(<<" ", "2", " ">>)},
                 STRIPE_SECRET_KEY : SecretSettings, STRIPE_PRICE_DEEP_PROOF : PriceSettings,
                 NEXT_PUBLIC_APP_URL : {Undefined}]
    /\ provider \in CheckoutSessions
    /\ scenario = [slots |-> {1}, errors |-> {}]
    /\ now \in {1000 + PASS_DURATION_HOURS * MsPerHour - off : off \in StartOffsets}
    /\ ticks = 0
    /\ cache = << >>
    /\ calls = [c \in Calls |-> Idle]
    /\ last = NoResponse
    /\ lastGrant = << >>
    /\ expiredDenied = {}

NextRevisions ==
    \/ \E d \in Deltas : Tick(d)
    \/ \E c \in Calls, id \in {JsonNull, JStr(<<" ">>), JStr(TheSession)} :
            \/ PriceCheckBegin(c, "part_012", id, Undefined)
            \/ \E hours \in {Undefined, JNum(2)} : PriceCheckBegin(c, "part_008", id, hours)
            \/ SdkVerify(c, id)
            \/ BareVerifyGet(c, id)
    \/ \E c \in Calls, sess \in SessionAnswers(provider) :
            \/ SessionLooked(c, sess)
            \/ SdkRetrieved(c, sess)
            \/ BareRetrieved(c, sess)
    \/ \E c \in Calls, li \in LineItemAnswers(provider) : LineItemsLooked(c, li)
    \/ \E c \in Calls : PriceCheckRejects(c)
    \/ Deliver

SpecRevisions == InitRevisions /\ [][NextRevisions]_vars

(* verifyDeepProofPass polled, directly and through the deep endpoint, for *)
(* a session that is paid during the run: two calls that may overlap, a provider that always answers with the     *)
(* session, DEEP_PASS_HOURS " 2 ", the process starting 1 s after the      *)
(* session was created (the pass window stays open throughout).  A lookup  *)
(* is answered and continued within its 7 s: while one is under way the    *)
(* clock moves by less.                                                    *)
InitPolling ==
    /\ env = [DEEP_PASS_HOURS |-> JStr(<<" ", "2", " ">>), STRIPE_SECRET_KEY |-> JStr(<<"s", "k">>)]
    /\ provider = [id \in SessionIds |->
                      [payment_status |-> JStr("unpaid"), created |-> JNum(1), paidAt |-> -1]]
    /\ scenario = [slots |-> Calls, errors |-> {}]
    /\ now = 2000
    /\ ticks = 0
    /\ cache = << >>
    /\ calls = [c \in Calls |-> Idle]
    /\ last = NoResponse
    /\ lastGrant = [id \in SessionIds |-> NoGrant]
    /\ expiredDenied = {}

NextPolling ==
    \/ \E d \in Deltas :
            /\ d < LookupTimeoutMs \/ \A c \in Calls : calls[c].pc = "idle"
            /\ Tick(d)
    \/ \E id \in SessionIds : Pay(id)
    \/ \E c \in Calls, arg \in SessionIdArgs : Verify(c, arg)
    \/ \E c \in Calls, body \in DeepBodies : DeepPost(c, body)
    \/ \E c \in Calls : LookupAnswers(c)
    \/ \E c \in Calls : VerifyFinish(c)
    \/ Deliver

SpecPolling == InitPolling /\ [][NextPolling]_vars

(* The delegating verifier (part_010) in front of the verify-session       *)
(* endpoint of part_011, one call at a time, the process starting 1 s      *)
(* after the session was created.                                          *)
InitDelegated ==
    /\ env \in [DEEP_PASS_HOURS : {Undefined, JStr(<<" ", "2", " ">>)},
                 STRIPE_SECRET_KEY : SecretSettings, STRIPE_PRICE_DEEP_PROOF : PriceSettings,
                 NEXT_PUBLIC_APP_URL : {Undefined, JStr(<<>>), JStr(<<"https://app", "/">>)},
                 APP_URL : {Undefined, JStr(<<"https://app">>)}]
    /\ provider \in [SessionIds -> [payment_status : {JStr("unpaid"), JStr("paid")},
                                    created : {JNum(1)}, price : {"price_deep", "price_other"}]]
    /\ scenario = [slots |-> {1}, errors |-> {}]
    /\ now = 2000
    /\ ticks = 0
    /\ cache = << >>
    /\ calls = [c \in Calls |-> Idle]
    /\ last = NoResponse
    /\ lastGrant = [id \in SessionIds |-> NoGrant]
    /\ expiredDenied = {}

NextDelegated ==
    \/ \E d \in Deltas : Tick(d)
    \/ \E c \in Calls, arg \in SessionIdArgs : DelegatedVerify(c, arg)
    \/ \E c \in Calls, ok \in BOOLEAN : EndpointAnswered(c, ok)
    \/ Deliver

SpecDelegated == InitDelegated /\ [][NextDelegated]_vars

----------------------------------------------------------------------------
(* The browser side: components/MicroNicheEngineFrontendPrototype.tsx (the  *)
(* app page) and unnamed/part_014 lines 59-184 (the unlock page that        *)
(* verifies).  In this specification env holds the search parameters of    *)
(* the page's URL, provider the localStorage entry mne_session_id, cache    *)
(* the component's state, calls the page and how far it has come, and last  *)
(* the answer of the server the step has just handled.                      *)

(* A fetch whose promise rejects. *)
Rejected == [status |-> 0, body |-> Undefined]

(* What GET verify-session answers: stripe/verify-session/route.ts for a   *)
(* grant and for a denial of the verifier, part_011 for a paid and an       *)
(* unpaid session, part_012 when the lookup throws.                         *)
VerifySessionAnswers ==
    { [status |-> 200, body |-> [t |-> "object"] @@ VerifySessionRespond(st).body] :
          st \in {PassOk(62000, 60), PassFail("Payment not completed.")} }
    \cup { [status |-> 200, body |-> [t |-> "object", paid |-> JBool(TRUE)]],
           [status |-> 200, body |-> [t |-> "object", paid |-> JBool(FALSE),
                                      reason |-> JStr(<<"not_paid">>)]],
           [status |-> 500, body |-> [t |-> "object", ok |-> JBool(FALSE),
                                      error |-> JStr(<<"Verify failed">>)]] }

(* What POST /api/generate/deep answers: the report with meta, 402, 400. *)
DeepAnswers ==
    { [status |-> 200, body |-> [t |-> "object",
                                 meta |-> [t |-> "object", passExpiresAt |-> JNum(62000),
                                           secondsRemaining |-> JNum(60)]]],
      [status |-> 402, body |-> [t |-> "object", error |-> JStr(<<"Pass expired.">>)]],
      [status |-> 400, body |-> [t |-> "object", error |-> JStr(<<"Missing instant">>)]] }

(* typeof v === "number" ? v : the value kept *)
NumberOrKept(v, kept) == IF v.t = "number" THEN v ELSE kept

(* The state after a verify-session answer j was read: setPaidUnlocked(!!j?.paid) *)
(* and the two numbers when they are numbers.                                    *)
VerifyApplied(st, j) ==
    [st EXCEPT !.paidUnlocked = Truthy(Get(j, "paid")),
               !.passExpiresAt = NumberOrKept(Get(j, "passExpiresAt"), @),
               !.secondsRemaining = NumberOrKept(Get(j, "secondsRemaining"), @)]

(* part_014, UnlockPage: run() of the effect, with the answer of its fetch. *)
UnlockPageRun(ans) ==
    /\ calls = [page |-> "unlock", pc |-> "mount"]
    /\ LET sessionId == Coalesce(env.session_id, JStr(<<>>)).s
           paid == env.paid = JStr(<<"1">>)
           data == IF ans.body.t = "object" THEN ans.body ELSE [t |-> "object"]
           isPaid == Truthy(Coalesce(Get(data, "paid"),
                                     Coalesce(Get(data, "deepPaid"), JBool(paid))))
       IN  IF sessionId = <<>>
           THEN /\ calls' = [calls EXCEPT !.pc = "error"]
                /\ last' = NoResponse
                /\ env' = env
           ELSE /\ last' = [kind |-> "verify", status |-> ans.status, body |-> ans.body]
                /\ IF \/ ans = Rejected
                      \/ ans.status \notin 200..299
                      \/ Get(data, "ok") = JBool(FALSE)
                      \/ ~isPaid
                   THEN /\ calls' = [calls EXCEPT !.pc = "error"]
                        /\ env' = env
                   ELSE /\ calls' = [page |-> "app", pc |-> "mount"]
                        /\ env' = [paid |-> JStr(<<"1">>), session_id |-> JStr(sessionId)]
    /\ UNCHANGED <<now, ticks, provider, cache, scenario, lastGrant, expiredDenied>>

(* The app page mounts: the session capture effect, then the verify effect *)
(* up to its fetch.                                                        *)
SessionCapture ==
    /\ calls = [page |-> "app", pc |-> "mount"]
    /\ LET sessionId == Coalesce(env.session_id, JStr(<<>>))
           stored == IF sessionId.s # <<>> THEN sessionId ELSE provider.session
       IN  /\ provider' = [session |-> stored]
           /\ env' = [env EXCEPT !.session_id = IF sessionId.s # <<>> THEN Undefined ELSE @]
           /\ calls' = [calls EXCEPT !.pc = IF stored = Undefined THEN "ready" ELSE "verifying"]
    /\ last' = NoResponse
    /\ UNCHANGED <<now, ticks, cache, scenario, lastGrant, expiredDenied>>

(* The verify effect's fetch is answered, or rejects. *)
VerifyEffectAnswered(ans) ==
    /\ calls = [page |-> "app", pc |-> "verifying"]
    /\ calls' = [calls EXCEPT !.pc = "ready"]
    /\ cache' = IF ans = Rejected
                THEN [cache EXCEPT !.paidUnlocked = FALSE, !.passExpiresAt = Undefined,
                                   !.secondsRemaining = Undefined]
                ELSE VerifyApplied(cache, ans.body)
    /\ last' = [kind |-> "verify", status |-> ans.status, body |-> ans.body]
    /\ UNCHANGED <<env, now, ticks, provider, scenario, lastGrant, expiredDenied>>

(* onGenerate after its instant result arrived: the result is kept, then   *)
(* the stored session, if any, is verified; a rejection leaves the state.  *)
onGenerate(ans) ==
    /\ calls.page = "app"
    /\ calls.pc \in {"verifying", "ready"}
    /\ IF provider.session = Undefined
       THEN /\ cache' = [cache EXCEPT !.instant = TRUE]
            /\ last' = NoResponse
       ELSE /\ cache' = IF ans = Rejected THEN [cache EXCEPT !.instant = TRUE]
                        ELSE VerifyApplied([cache EXCEPT !.instant = TRUE], ans.body)
            /\ last' = [kind |-> "verify", status |-> ans.status, body |-> ans.body]
    /\ UNCHANGED <<env, now, ticks, provider, calls, scenario, lastGrant, expiredDenied>>

(* onGenerateDeep, past its two early returns, with the answer of its POST. *)
onGenerateDeep(ans) ==
    /\ calls.page = "app"
    /\ calls.pc \in {"verifying", "ready"}
    /\ cache.instant
    /\ provider.session # Undefined
    /\ cache' = IF ans = Rejected THEN cache
                ELSE IF ans.status = 402 THEN [cache EXCEPT !.paidUnlocked = FALSE]
                ELSE IF ans.status \notin 200..299 THEN cache
                ELSE LET meta == Get(ans.body, "meta")
                     IN  [cache EXCEPT !.paidUnlocked = TRUE,
                              !.passExpiresAt = NumberOrKept(Get(meta, "passExpiresAt"), @),
                              !.secondsRemaining = NumberOrKept(Get(meta, "secondsRemaining"), @)]
    /\ last' = [kind |-> "deep", status |-> ans.status, body |-> ans.body]
    /\ UNCHANGED <<env, now, ticks, provider, calls, scenario, lastGrant, expiredDenied>>

(* d ms pass and the countdown's interval fires. *)
CountdownFires(d) ==
    /\ calls.page = "app"
    /\ Truthy(cache.passExpiresAt)
    /\ ticks < MaxTicks
    /\ now' = now + d
    /\ ticks' = ticks + 1
    /\ LET s == (cache.passExpiresAt.v - now') \div MsPerSecond
       IN  cache' = [cache EXCEPT !.secondsRemaining = JNum(s),
                                  !.paidUnlocked = IF s <= 0 THEN FALSE ELSE @]
    /\ last' = NoResponse
    /\ UNCHANGED <<env, provider, calls, scenario, lastGrant, expiredDenied>>

(* A visitor opens the unlock page or the app page with any of the search  *)
(* parameters, with or without a session id stored by an earlier visit.    *)
InitClient ==
    /\ env \in [paid : {Undefined, JStr(<<"1">>), JStr(<<"0">>)},
                 session_id : {Undefined, JStr(TheSession)}]
    /\ provider \in [session : {Undefined, JStr(TheSession)}]
    /\ calls \in [page : {"unlock", "app"}, pc : {"mount"}]
    /\ cache = [paidUnlocked |-> FALSE, passExpiresAt |-> Undefined,
                secondsRemaining |-> Undefined, instant |-> FALSE]
    /\ scenario = [slots |-> {}, errors |-> {}]
    /\ now = 2000
    /\ ticks = 0
    /\ last = NoResponse
    /\ lastGrant = << >>
    /\ expiredDenied = {}

NextClient ==
    \/ \E ans \in VerifySessionAnswers \cup {Rejected} : UnlockPageRun(ans)
    \/ SessionCapture
    \/ \E ans \in VerifySessionAnswers \cup {Rejected} : VerifyEffectAnswered(ans)
    \/ \E ans \in VerifySessionAnswers \cup {Rejected} : onGenerate(ans)
    \/ \E ans \in DeepAnswers \cup {Rejected} : onGenerateDeep(ans)
    \/ \E d \in Deltas : CountdownFires(d)

SpecClient == InitClient /\ [][NextClient]_vars

----------------------------------------------------------------------------
(* The history and saved lists of the app page.  In this specification     *)
(* cache holds the component's state (history, saved, instant), scenario   *)
(* what the visitor does, and last the star click just made: the result    *)
(* clicked, whether it is the second click in a row on that result, and    *)
(* the saved list before the first.                                        *)

(* keyForInstant *)
keyForInstant(x) ==
    LET obj == IF isRecord(x) THEN x ELSE [t |-> "object"]
        m == Get(obj, "meta")
        meta == IF isRecord(m) THEN m ELSE [t |-> "object"]
        lane == Coalesce(Get(meta, "lane"), Coalesce(Get(obj, "lane"), JStr(<<"Lane">>)))
        micro == Coalesce(Get(obj, "microNiche"),
                     Coalesce(Get(obj, "micro_niche"),
                         Coalesce(Get(obj, "name"),
                             Coalesce(Get(obj, "micro"), JStr(<<"Unknown">>)))))
    IN  Trim(ToStr(lane)) \o <<":", ":">> \o Trim(ToStr(micro))

(* prev.some((x) => keyForInstant(x) === k) *)
HasKey(prev, k) == \E i \in 1..Len(prev) : keyForInstant(prev[i]) = k

(* [res, ...prev].slice(0, 30) *)
Prepended(res, prev) ==
    LET all == <<res>> \o prev
    IN  SubSeq(all, 1, IF Len(all) > 30 THEN 30 ELSE Len(all))

(* The updater addToHistory hands to setHistory *)
addToHistory(prev, res) ==
    IF HasKey(prev, keyForInstant(res)) THEN prev ELSE Prepended(res, prev)

(* The updater toggleSave hands to setSaved *)
toggleSave(prev, res) ==
    IF HasKey(prev, keyForInstant(res))
    THEN SelectSeq(prev, LAMBDA x : keyForInstant(x) # keyForInstant(res))
    ELSE Prepended(res, prev)

(* What the instant endpoint answered to a visitor who browses: a result,  *)
(* the same niche with stray blanks, one that names its lane and niche in  *)
(* the older properties, and a body that was not JSON (null).              *)
BrowsedResults ==
    { [t |-> "object", meta |-> [t |-> "object", lane |-> JStr(<<"A">>)],
       microNiche |-> JStr(<<"x">>)],
      [t |-> "object", meta |-> [t |-> "object", lane |-> JStr(<<"A", " ">>)],
       microNiche |-> JStr(<<" ", "x">>)],
      [t |-> "object", lane |-> JStr(<<"B">>), name |-> JStr(<<"y">>)],
      JsonNull }

(* The i-th result of a visitor who stars every result before asking for   *)
(* the next; such a visitor collects up to MaxResults results.             *)
MaxResults == 32
Niche(i) ==
    [t |-> "object", meta |-> [t |-> "object", lane |-> JStr(<<"A">>)],
     microNiche |-> JStr(<<"n">> \o NumToStr(i))]

(* onGenerate's instant result arrives: setInstant(json); addToHistory(json) *)
InstantArrives(res) ==
    /\ cache' = [cache EXCEPT !.instant = res, !.history = addToHistory(@, res)]
    /\ last' = NoResponse
    /\ UNCHANGED <<env, now, ticks, provider, calls, scenario, lastGrant, expiredDenied>>

(* A click on the star of res: toggleSave(res) *)
StarClicked(res) ==
    /\ cache' = [cache EXCEPT !.saved = toggleSave(@, res)]
    /\ last' = IF last # NoResponse /\ last.res = res /\ last.count = 1
               THEN [last EXCEPT !.count = 2]
               ELSE [kind |-> "toggle", res |-> res, before |-> cache.saved, count |-> 1]
    /\ UNCHANGED <<env, now, ticks, provider, calls, scenario, lastGrant, expiredDenied>>

clearCurrent ==
    /\ cache.instant # JsonNull
    /\ cache' = [cache EXCEPT !.instant = JsonNull]
    /\ last' = NoResponse
    /\ UNCHANGED <<env, now, ticks, provider, calls, scenario, lastGrant, expiredDenied>>

clearEverything ==
    /\ cache # [history |-> << >>, saved |-> << >>, instant |-> JsonNull]
    /\ cache' = [history |-> << >>, saved |-> << >>, instant |-> JsonNull]
    /\ last' = NoResponse
    /\ UNCHANGED <<env, now, ticks, provider, calls, scenario, lastGrant, expiredDenied>>

InitLists ==
    /\ cache = [history |-> << >>, saved |-> << >>, instant |-> JsonNull]
    /\ scenario \in {"browsing", "collecting"}
    /\ env = << >>
    /\ provider = << >>
    /\ calls = << >>
    /\ now = 2000
    /\ ticks = 0
    /\ last = NoResponse
    /\ lastGrant = << >>
    /\ expiredDenied = {}

(* The stars on the page: of the result shown, of the history's entries    *)
(* and of the saved entries.                                               *)
NextLists ==
    \/ /\ scenario = "browsing"
       /\ \E res \in BrowsedResults : InstantArrives(res)
    \/ /\ scenario = "collecting"
       /\ \E i \in 1..MaxResults :
             /\ IF i = 1 THEN cache.history = << >>
                ELSE /\ cache.history # << >>
                     /\ cache.history[1] = Niche(i - 1)
                     /\ HasKey(cache.saved, keyForInstant(Niche(i - 1)))
             /\ InstantArrives(Niche(i))
    \/ /\ scenario = "browsing"
       /\ \E i \in 1..Len(cache.history) : StarClicked(cache.history[i])
    \/ /\ scenario = "browsing"
       /\ \E i \in 1..Len(cache.saved) : StarClicked(cache.saved[i])
    \/ /\ cache.instant # JsonNull
       /\ StarClicked(cache.instant)
    \/ clearCurrent
    \/ clearEverything

SpecLists == InitLists /\ [][NextLists]_vars

(* The handlers that call the payment provider, with a provider that never *)
(* answers: requests arrive (MaxTicks timeouts long), timers fire and      *)
(* continuations run.  A timer and a continuation are the event loop's to  *)
(* run, each for its own call, however many other requests are answered    *)
(* in between: hence the strong fairness per call.                         *)
InitSilent ==
    /\ env \in [DEEP_PASS_HOURS : {Undefined}, STRIPE_SECRET_KEY : SecretSettings,
                 STRIPE_PRICE_DEEP_PROOF : PriceSettings, NEXT_PUBLIC_APP_URL : {Undefined}]
    /\ provider = {}
    /\ scenario = [slots |-> Calls, errors |-> {}]
    /\ now = 1000
    /\ ticks = 0
    /\ cache = << >>
    /\ calls = [c \in Calls |-> Idle]
    /\ last = NoResponse
    /\ lastGrant = [id \in SessionIds |-> NoGrant]
    /\ expiredDenied = {}

NextSilent ==
    \/ ticks < MaxTicks /\ \E c \in Calls, arg \in SessionIdArgs : Verify(c, arg)
    \/ ticks < MaxTicks /\ \E c \in Calls, body \in DeepBodies : DeepPost(c, body)
    \/ ticks < MaxTicks /\ \E c \in Calls, q \in SessionIdQueries : VerifySessionGet(c, q)
    \/ ticks < MaxTicks /\ \E c \in Calls, raw \in CheckoutBodies : CheckoutPost(c, raw)
    \/ \E c \in Calls : LookupTimesOut(c)
    \/ \E c \in Calls : VerifyFinish(c)
    \/ Deliver

SpecSilent ==
    /\ InitSilent
    /\ [][NextSilent]_vars
    /\ \A c \in Calls : SF_vars(LookupTimesOut(c))
    /\ \A c \in Calls : SF_vars(VerifyFinish(c))
    /\ WF_vars(Deliver)

----------------------------------------------------------------------------
(* Properties.  They are stated on `last`, the response produced by the    *)
(* step just taken, so `now` is the instant of that response.              *)

(* The response carries a result of verifyDeepProofPass. *)
IsVerdict == "result" \in DOMAIN last

(* The result was computed from a 2xx answer holding a session object. *)
FromSession ==
    /\ IsVerdict
    /\ last.src = "provider"
    /\ last.resp.kind = "json"
    /\ last.resp.json.t = "object"

(* The pass duration the specification states, per DEEP_PASS_HOURS setting: *)
(* the value when it is a finite positive number, 24 otherwise.             *)
StatedPassHours(setting) ==
    CASE setting = Undefined -> 24
      [] setting = JStr(<<>>) -> 24
      [] setting = JStr(<<"a", "b", "c">>) -> 24
      [] setting = JStr(<<"0">>) -> 24
      [] setting = JStr(<<"-", "1">>) -> 24
      [] setting = JStr(<<" ", "2", " ">>) -> 2
      [] setting = JStr(InfinityLit) -> 24

(* T*1000 + H*3600*1000 for the session of the response *)
StatedExpiry(id) ==
    provider[id].created.v * 1000 + StatedPassHours(env.DEEP_PASS_HOURS) * 3600 * 1000

HasTimestamp(id) == id \in DOMAIN provider /\ provider[id].created.t = "number"

(* C1: a session whose provider record has a payment_status other than     *)
(* "paid" is never granted: every granted result is for a session the      *)
(* provider holds as paid, whatever the rest of the record and whatever the *)
(* client sent.                                                            *)
C1_NotPaidIsDenied ==
    (IsVerdict /\ last.result.ok) =>
        (last.id \in DOMAIN provider /\ provider[last.id].payment_status = JStr("paid"))

(* A deep request carrying paid: true, for a session the provider answers  *)
(* as no_payment_required, is denied.                                      *)
C1_Witness ==
    /\ FromSession
    /\ last.kind = "deep" /\ last.paidHint
    /\ last.resp.json.payment_status = JStr("no_payment_required")
    /\ last.result = PassFail("Payment not completed.")

(* C2: a call whose provider lookup threw (fetch rejected, non-2xx answer,  *)
(* timeout, missing key) returns ok:false.                                 *)
C2_LookupFailureIsDenied ==
    (IsVerdict /\ last.src = "provider" /\ last.resp.kind = "throw") => ~last.result.ok

(* The lookup timed out and the call returned a denial carrying the error. *)
C2_Witness ==
    /\ IsVerdict
    /\ last.src = "provider"
    /\ last.resp = Thrown("The operation was aborted due to timeout")
    /\ last.result = PassFail("The operation was aborted due to timeout")

(* C3: a paid session whose record has no usable creation timestamp is     *)
(* denied.                                                                 *)
C3_MissingTimestampIsDenied ==
    (FromSession /\ last.resp.json.created.t # "number") => ~last.result.ok

(* C4: no result produced at or after passExpiresAt is a grant, memo hits   *)
(* included.                                                               *)
C4_NoGrantAtOrAfterExpiry ==
    (IsVerdict /\ last.result.ok) => now < last.result.passExpiresAt

(* C5: for a session created at T the reported passExpiresAt is             *)
(* T*1000 + H*3600*1000 with H the stated pass duration, and a verification *)
(* at exactly that instant is denied.                                      *)
C5_ExpiryIsCreatedPlusHours ==
    (IsVerdict /\ HasTimestamp(last.id)) =>
        /\ last.result.ok => last.result.passExpiresAt = StatedExpiry(last.id)
        /\ now = StatedExpiry(last.id) => ~last.result.ok

(* C6: a fresh verification of a paid session at any instant from its      *)
(* creation to strictly before its expiry is granted.                      *)
C6_GrantedUntilExpiry ==
    ( /\ FromSession
      /\ PaymentStatusOf(last.resp.json) = "paid"
      /\ HasTimestamp(last.id)
      /\ provider[last.id].created.v * 1000 <= now
      /\ now < StatedExpiry(last.id) ) => last.result.ok

(* C7: once a session was denied as expired, no later verification of it    *)
(* is granted.                                                             *)
C7_NoGrantAfterExpiredDenial ==
    (IsVerdict /\ last.afterExpired) => ~last.result.ok

(* After an expired denial, a later call that asked the provider again and *)
(* got the paid session is denied again.                                   *)
C7_Witness ==
    /\ FromSession
    /\ last.afterExpired
    /\ PaymentStatusOf(last.resp.json) = "paid"
    /\ last.result = PassFail("Pass expired.")

(* C8: a grant at t2 reports fewer secondsRemaining than an earlier grant   *)
(* of the same session at t1 < t2.                                         *)
C8_SecondsStrictlyDecrease ==
    (IsVerdict /\ last.result.ok /\ last.prevGrant # NoGrant /\ last.prevGrant.at < now) =>
        last.result.secondsRemaining < last.prevGrant.value.secondsRemaining

(* C9: the deep endpoint answers 200 with the report only on a grant of the *)
(* verifier in that request; on a denial it answers 402 with the reason and *)
(* no report.                                                              *)
C9_DeepGatedByPass ==
    (last # NoResponse /\ last.kind = "deep") =>
        /\ last.http.status = 200 => (IsVerdict /\ last.result.ok)
        /\ (IsVerdict /\ ~last.result.ok) =>
              /\ last.http.status = 402
              /\ last.http.error = last.result.reason
              /\ "report" \notin DOMAIN last.http

(* The deep endpoint turned an expired pass away with 402. *)
C9_Witness ==
    /\ IsVerdict
    /\ last.kind = "deep"
    /\ last.result = PassFail("Pass expired.")
    /\ last.http = [status |-> 402, error |-> "Pass expired."]

(* C10 as stated: every grant rests on a session record fetched from the   *)
(* provider during the same call.                                          *)
C10_EveryGrantFetchedInCall ==
    (IsVerdict /\ last.result.ok) => FromSession

(* C10 as amended: every grant rests on a paid session record fetched from *)
(* the provider, in the same call or in a call for the same id that         *)
(* finished at most 60 s before, whose result the memo hands back.         *)
C10_GrantFetchedWithinMemoTtl ==
    (IsVerdict /\ last.result.ok) =>
        \/ FromSession /\ PaymentStatusOf(last.resp.json) = "paid"
        \/ /\ last.src = "memo"
           /\ last.prevGrant # NoGrant
           /\ now <= last.prevGrant.at + 60000
           /\ last.result = last.prevGrant.value

(* A grant handed back from the memo later than the lookup it rests on. *)
C10_Witness ==
    /\ IsVerdict
    /\ last.result.ok
    /\ last.src = "memo"
    /\ last.prevGrant.at < now

(* C11: GET verify-session answers with a boolean `paid` that is true       *)
(* exactly when the verifier granted, and then carries the verifier's       *)
(* passExpiresAt and secondsRemaining.                                     *)
C11_PaidIffGranted ==
    (IsVerdict /\ last.kind = "session") =>
        /\ "paid" \in DOMAIN last.http.body
        /\ last.http.body.paid = JBool(last.result.ok)
        /\ last.result.ok =>
              /\ last.http.body.passExpiresAt = JNum(last.result.passExpiresAt)
              /\ last.http.body.secondsRemaining = JNum(last.result.secondsRemaining)

(* C12 as stated: every request to the deep endpoint that carries no       *)
(* session id is answered 402 with the missing-identifier reason, whatever *)
(* else its body holds.                                                    *)
C12_NoIdIs402WhateverTheBody ==
    (last # NoResponse /\ last.kind = "deep" /\ last.id = <<>>) =>
        last.http = [status |-> 402, error |-> "Missing session id."]

(* C12 as amended: a request to the deep endpoint whose body passed the    *)
(* body checks (it then carries a verdict of the verifier) and holds no    *)
(* session id is answered 402 "Missing session id.", with no lookup and no *)
(* memo involved; one whose body failed them is answered 400.              *)
C12_NoIdIs402AfterBodyChecks ==
    (last # NoResponse /\ last.kind = "deep" /\ last.id = <<>>) =>
        IF IsVerdict
        THEN /\ last.http = [status |-> 402, error |-> "Missing session id."]
             /\ last.src = "none"
        ELSE last.http.status = 400

(* A deep request with a valid instant payload, paid: true and no usable   *)
(* session id was turned away with 402.                                    *)
C12_Witness ==
    /\ IsVerdict
    /\ last.kind = "deep" /\ last.paidHint
    /\ last.id = <<>>
    /\ last.http.status = 402

(* The request body is malformed: no JSON, or a JSON value that is no      *)
(* object.                                                                 *)
Malformed(raw) == raw.t # "object"

(* C13: a request with a malformed body to a generation endpoint is        *)
(* answered 400 with an error message, and no upstream call was made for   *)
(* it.                                                                     *)
C13_MalformedBodyIs400 ==
    (last # NoResponse /\ last.kind = "instant" /\ Malformed(last.body)) =>
        /\ last.http.status = 400
        /\ "error" \in DOMAIN last.http
        /\ last.upstream = 0

(* The response answers a completion of the language model. *)
AnswersCompletion == last # NoResponse /\ last.kind = "instant" /\ "content" \in DOMAIN last

(* The parsed completion is a JSON object holding a non-empty micro-niche  *)
(* name: the first of microNiche, micro_niche and name that is there and   *)
(* not null, as a string without its surrounding white space.              *)
HasMicroNicheName(x) ==
    LET there(k) == k \in DOMAIN x /\ x[k].t \notin {"null", "undefined"}
        given == IF there("microNiche") THEN x.microNiche
                 ELSE IF there("micro_niche") THEN x.micro_niche
                 ELSE IF there("name") THEN x.name ELSE JStr(<<>>)
    IN  x.t = "object" /\ Trim(ToStr(given)) # <<>>

(* The confidence the completion states: meta.confidence, else confidence *)
StatedConfidence(x) ==
    LET inMeta == "meta" \in DOMAIN x /\ x.meta.t = "object" /\ "confidence" \in DOMAIN x.meta
                    /\ x.meta.confidence.t \notin {"null", "undefined"}
        atTop == "confidence" \in DOMAIN x /\ x.confidence.t \notin {"null", "undefined"}
    IN  IF inMeta THEN Trim(ToStr(x.meta.confidence))
        ELSE IF atTop THEN Trim(ToStr(x.confidence)) ELSE <<>>

IsListOfNonEmpty(l) == \A i \in 1..Len(l) : l[i] # <<>> /\ l[i] = Trim(l[i])

(* C20: the model-backed instant endpoint answers 500 exactly when the     *)
(* parsed completion is no object or has no non-empty micro-niche name,    *)
(* with at most 1200 characters of the completion as `raw`; otherwise it   *)
(* answers 200 with every field of the Instant Result: confidence one of   *)
(* High/Medium/Low (the stated one if it is one of them, else Medium),     *)
(* lists of non-empty strings (empty when the completion has none),        *)
(* confidenceWhy non-empty.                                                *)
C20_NormalizedShape ==
    AnswersCompletion =>
        LET x == IF last.content.cleaned \in {Blank, NotJson} THEN JsonNull ELSE last.content.cleaned
            b == last.http.body
        IN  IF ~HasMicroNicheName(x)
            THEN /\ last.http.status = 500
                 /\ b.raw.of = last.content
                 /\ b.raw.chars <= 1200
                 /\ b.raw.chars <= last.content.chars
            ELSE /\ last.http.status = 200
                 /\ DOMAIN b = {"ok", "microNiche", "coreProblem", "firstService", "buyerPlaces",
                                "oneActionToday", "meta"}
                 /\ DOMAIN b.meta = {"lane", "confidence", "confidenceWhy", "confidenceDrivers",
                                     "confidenceRaise", "gatesPassed"}
                 /\ b.microNiche # <<>>
                 /\ b.meta.confidence \in ConfidenceLevels
                 /\ b.meta.confidence =
                        IF StatedConfidence(x) \in ConfidenceLevels THEN StatedConfidence(x) ELSE Medium
                 /\ b.meta.confidenceWhy # <<>>
                 /\ b.meta.lane # <<>>
                 /\ \A l \in {b.buyerPlaces, b.meta.confidenceDrivers, b.meta.confidenceRaise,
                               b.meta.gatesPassed} : IsListOfNonEmpty(l)
                 /\ \A k \in {"confidenceDrivers", "confidenceRaise", "gatesPassed"} :
                        ("meta" \notin DOMAIN x \/ x.meta.t # "object" \/ k \notin DOMAIN x.meta)
                            => b.meta[k] = <<>>
                 /\ ({"buyerPlaces", "buyer_places", "channel"} \cap DOMAIN x = {})
                        => b.buyerPlaces = <<>>

(* A completion stating the confidence "high" was answered 200 with the    *)
(* confidence Medium and the default explanation.                          *)
C20_Witness ==
    /\ AnswersCompletion
    /\ last.http.status = 200
    /\ StatedConfidence(last.content.cleaned) = <<"h", "i", "g", "h">>
    /\ last.http.body.meta.confidence = Medium
    /\ last.http.body.meta.confidenceWhy = NotProvided

(* C14: every checkout session created at the provider is for the          *)
(* server-configured price STRIPE_PRICE_DEEP_PROOF, whatever the body of   *)
(* the request held.                                                       *)
C14_PriceFixedServerSide ==
    \A session \in provider :
        /\ EnvIsSet(env, "STRIPE_PRICE_DEEP_PROOF")
        /\ session.price = env.STRIPE_PRICE_DEEP_PROOF.s

(* C17: the checkout endpoint answers 2xx with a non-empty string `url`,   *)
(* or a non-2xx status with an error object; so never 2xx when the         *)
(* provider call failed or the created session has no url.                 *)
C17_UrlOrError ==
    (last # NoResponse /\ last.kind = "checkout") =>
        IF last.http.status \in 200..299
        THEN /\ "url" \in DOMAIN last.http.body
             /\ last.http.body.url.t = "string"
             /\ last.http.body.url.s # <<>>
        ELSE "error" \in DOMAIN last.http.body

(* C18: every request that waits for the payment provider is eventually   *)
(* answered, though the provider never answers.                            *)
C18_EveryRequestResponds ==
    \A c \in Calls : (calls[c].pc # "idle") ~> (calls[c].pc = "idle")

----------------------------------------------------------------------------
(* The price-checking verifier (part_008, part_012) *)

PriceCheckAnswered == last.kind = "pricecheck" /\ last.stage # "id"

(* The reasons with which a check may fail: its code, or the message of    *)
(* the Error a lookup threw.                                               *)
ReasonsOfFirstFailedCheck ==
    LET thrown == {"Missing env: STRIPE_PRICE_DEEP_PROOF", "Missing env: STRIPE_SECRET_KEY",
                   "fetch failed"}
        created == Get(last.sess.json, "created")
    IN  IF ~last.sess.ok THEN {"session_lookup_failed"} \cup thrown
        ELSE IF Get(last.sess.json, "payment_status") # JStr("paid") THEN {"not_paid"}
        ELSE IF ~last.li.ok THEN {"line_items_lookup_failed"} \cup thrown
        ELSE IF ~MatchesPrice(last.li.json, last.expected.s) THEN {"wrong_price"}
        ELSE IF created.t \notin {"number", "string"} THEN {"missing_created_timestamp"}
        ELSE {"expired"}

(* C15: in the price-checking verifier a grant implies that the session    *)
(* lookup succeeded, payment_status is "paid", the line-items lookup       *)
(* succeeded, a returned line item has the expected price id, the creation *)
(* timestamp is present and the remaining time is positive; any other      *)
(* answer is paid:false with the reason of the first of these checks that  *)
(* failed.                                                                 *)
C15_GrantNeedsPaidExpectedPrice ==
    PriceCheckAnswered =>
        IF last.verdict.paid
        THEN /\ last.sess.ok
             /\ Get(last.sess.json, "payment_status") = JStr("paid")
             /\ last.li.ok
             /\ MatchesPrice(last.li.json, last.expected.s)
             /\ Get(last.sess.json, "created").t \in {"number", "string"}
             /\ last.verdict.secondsRemaining.v > 0
             /\ last.verdict.passExpiresAt.v > now
        ELSE last.verdict.reason \in ReasonsOfFirstFailedCheck

(* A grant after both lookups, the expected price being the second of two  *)
(* line items.                                                             *)
C15_Witness ==
    /\ PriceCheckAnswered
    /\ last.verdict.paid
    /\ Len(last.li.json.data.items) = 2

(* C16: whenever the session-verification endpoint of part_012 (fixed 24 h *)
(* and price check) has the provider's session record, it reports          *)
(* paid:true with expiry E exactly when verifyDeepProofPass of pass.ts,    *)
(* given the same record at the same instant, grants with the expiry E.    *)
C16_SameDecisionEverywhere ==
    (last.kind = "pricecheck" /\ last.rev = "part_012" /\ last.sess.ok
        /\ last.stage \in {"session", "items"}) =>
        LET json == last.sess.json
            pass == Decide(Returned(IF "raw" \in DOMAIN json THEN JsonNull ELSE json), env, now).out
        IN  /\ last.verdict.paid <=> pass.ok
            /\ last.verdict.paid => last.verdict.passExpiresAt = JNum(pass.passExpiresAt)

(* C19: the SDK-based verifier and the bare session-verification endpoint  *)
(* report a session as paid only if its payment_status is "paid",          *)
(* whatever its status is.                                                 *)
C19_PaidOnlyIfPaymentStatusPaid ==
    /\ (last.kind = "sdk" /\ last.status.paid) =>
            Get(last.sess.json, "payment_status") = JStr("paid")
    /\ (last.kind = "bare" /\ last.http.status = 200 /\ last.http.body.paid) =>
            Get(last.sess.json, "payment_status") = JStr("paid")

----------------------------------------------------------------------------
(* The memo of pass.ts *)

(* What a verifier without the memo returns now for the session the        *)
(* provider holds.                                                         *)
FreshResult(id) ==
    Decide(Returned(JsonSession(provider[id].payment_status, provider[id].created)), env, now).out

(* C21: a result handed back from the memo is the grant or denial (and the *)
(* expiry) that a verifier without the memo returns at that moment.        *)
C21_MemoNeverChangesDecision ==
    (IsVerdict /\ last.src = "memo" /\ last.id \in DOMAIN provider) =>
        /\ last.result.ok <=> FreshResult(last.id).ok
        /\ last.result.ok => last.result.passExpiresAt = FreshResult(last.id).passExpiresAt

(* The lifetime the claim states for a memoized result *)
StatedTtl(value) ==
    IF value.ok THEN 60000
    ELSE IF value.reason \in {"Payment not completed.", "Pass expired."} THEN 30000
    ELSE 15000

(* C22: a result is handed back from the memo only while now <= storedAt   *)
(* + ttl, with ttl 15 s for lookup failures, 30 s for not-paid and expired *)
(* results and 60 s for grants; a hit leaves the entry as it is; entries   *)
(* are written only with the result of a lookup of a non-empty id; and a   *)
(* call for an id whose entry has outlived its ttl starts a lookup.        *)
C22_MemoLifetime ==
    [][ /\ (IsVerdict' /\ last'.src = "memo") =>
              /\ last'.id \in DOMAIN cache
              /\ now <= cache[last'.id].expiresAt
              /\ last'.result = cache[last'.id].value
              /\ cache' = cache
        /\ \A id \in DOMAIN cache' :
              (id \notin DOMAIN cache \/ cache'[id] # cache[id]) =>
                  /\ id # <<>>
                  /\ IsVerdict' /\ last'.src = "provider" /\ last'.id = id
                  /\ cache'[id].value = last'.result
                  /\ cache'[id].expiresAt = now + StatedTtl(last'.result)
        /\ \A c \in Calls :
              (calls[c].pc = "idle" /\ calls'[c].pc # "idle") =>
                  /\ ~(calls'[c].id \in DOMAIN cache /\ now <= cache[calls'[c].id].expiresAt)
                  /\ calls'[c].id \notin DOMAIN cache'
        /\ (IsVerdict' /\ last'.id \in DOMAIN cache /\ now > cache[last'.id].expiresAt) =>
              last'.src = "provider"
      ]_vars

(* A call made after the 60 s of a memoized grant asked the provider again. *)
C22_Witness ==
    /\ IsVerdict
    /\ last.src = "provider"
    /\ last.prevGrant # NoGrant
    /\ now > last.prevGrant.at + 60000

(* C23: once the provider reports the session as paid (from paidAt on) and *)
(* answers, with the pass window open, a call made more than 30 s after    *)
(* the last lookup that preceded the payment is granted; in particular     *)
(* every call made more than 30 s after the payment itself, whether it is  *)
(* answered from the memo or after a lookup that read the paid session.    *)
C23_PaidIsGrantedAfter30s ==
    ( /\ IsVerdict
      /\ last.id \in DOMAIN provider
      /\ provider[last.id].payment_status = JStr("paid")
      /\ provider[last.id].paidAt >= 0
      /\ now > provider[last.id].paidAt + 30000
      /\ now + 1000 <= StatedExpiry(last.id)
      /\ \/ last.src = "memo"
         \/ FromSession /\ PaymentStatusOf(last.resp.json) = "paid" ) => last.result.ok

(* C24: the memo holds the result of the most recent provider answer: when *)
(* a call finishes with a not-paid answer while the memo holds the grant   *)
(* of a call that read the session after its payment, the grant stays in   *)
(* the memo.                                                               *)
C24_NewestAnswerStaysInMemo ==
    ( /\ FromSession
      /\ PaymentStatusOf(last.resp.json) # "paid"
      /\ last.prevGrant # NoGrant
      /\ now <= last.prevGrant.at + 60000 ) =>
        cache[last.id].value = last.prevGrant.value

----------------------------------------------------------------------------
(* The order of the checks of the deep endpoint *)

(* An instant payload as the claim asks for it *)
StatedInstant(ins) ==
    /\ ins.t = "object"
    /\ Get(ins, "microNiche").t = "string" /\ Get(ins, "microNiche").s # <<>>
    /\ Get(ins, "coreProblem").t = "string" /\ Get(ins, "coreProblem").s # <<>>
    /\ Get(ins, "firstService").t = "object"
    /\ Get(Get(ins, "firstService"), "name").t = "string"
    /\ Get(Get(ins, "firstService"), "outcome").t = "string"

(* C25: a POST to the deep endpoint is answered 400 at once when its body  *)
(* is no JSON object, else 400 at once when its instant payload is not     *)
(* valid, and only else goes to the pass (402 on a denial, 200 on a        *)
(* grant); a request answered 400 has sent no lookup and has left the memo *)
(* alone.                                                                  *)
C25_ChecksInOrder ==
    [][ /\ \A c \in Calls, body \in DeepBodies :
              DeepPost(c, body) =>
                  IF body.t # "object" \/ ~StatedInstant(Get(body, "instant"))
                  THEN last' # NoResponse /\ last'.http.status = 400
                  ELSE \/ calls'[c].pc \in {"await", "resume"}
                       \/ IsVerdict' /\ last'.http.status = (IF last'.result.ok THEN 200 ELSE 402)
        /\ (last' # NoResponse /\ last'.kind = "deep") =>
              IF last'.http.status = 400
              THEN /\ calls' = calls
                   /\ cache' = cache
              ELSE IsVerdict' /\ last'.http.status = (IF last'.result.ok THEN 200 ELSE 402)
      ]_vars

(* A request that names a paid session but carries no valid instant        *)
(* payload was answered 400, with no lookup under way and nothing in the   *)
(* memo.                                                                   *)
C25_Witness ==
    /\ last # NoResponse
    /\ last.kind = "deep"
    /\ last.http = BadRequest("Missing/invalid instant payload.")
    /\ last.id = TheSession
    /\ provider[TheSession].payment_status = JStr("paid")
    /\ TheSession \notin DOMAIN cache
    /\ \A c \in Calls : calls[c].pc = "idle"

(* C26: the passHours in the meta of a deep report is the pass duration    *)
(* the verifier computes passExpiresAt with, for every DEEP_PASS_HOURS.    *)
C26_MetaPassHoursIsVerifiers ==
    (last # NoResponse /\ last.kind = "deep" /\ last.http.status = 200) =>
        last.http.meta.passHours = Fin(getPassHours(env))

(* C27: in the verifier that delegates to the verify-session endpoint the  *)
(* expiry granted for a session is its creation time plus the pass         *)
(* duration, and the same at every check of that session.                  *)
C27_ExpiryFixedBySession ==
    (IsVerdict /\ last.kind = "delegated" /\ last.result.ok) =>
        /\ last.result.passExpiresAt = StatedExpiry(last.id)
        /\ last.prevGrant # NoGrant =>
              last.result.passExpiresAt = last.prevGrant.value.passExpiresAt

(* C28: the success_url of every checkout session created at the provider *)
(* holds the literal placeholder session_id={CHECKOUT_SESSION_ID}, and its *)
(* cancel_url holds no session_id.                                         *)
C28_SuccessUrlCarriesPlaceholder ==
    \A session \in provider :
        /\ \E i \in 1..Len(session.success_url) - 4 :
              SubSeq(session.success_url, i, i + 4)
                  = <<"session_id", "=", "{", "CHECKOUT_SESSION_ID", "}">>
        /\ \A i \in 1..Len(session.cancel_url) : session.cancel_url[i] # "session_id"


(* C29: the client unlocks only on the server's word.  A step that sets    *)
(* paidUnlocked true has handled a verify-session answer whose paid is     *)
(* true or a deep answer with a 2xx status other than 402, and a step in   *)
(* which the unlock page forwards to the app with paid=1 has handled a     *)
(* verify-session answer whose paid is true.                               *)
C29_UnlockOnlyOnServersWord ==
    [][ /\ (~cache.paidUnlocked /\ cache'.paidUnlocked) =>
              \/ /\ last'.kind = "verify"
                 /\ Get(last'.body, "paid") = JBool(TRUE)
              \/ /\ last'.kind = "deep"
                 /\ last'.status \in 200..299
                 /\ last'.status # 402
        /\ (calls.page = "unlock" /\ calls'.page = "app" /\ env'.paid = JStr(<<"1">>)) =>
              /\ last'.kind = "verify"
              /\ Get(last'.body, "paid") = JBool(TRUE)
      ]_vars


(* C30: from empty lists, after any sequence of results arriving, star     *)
(* clicks and clears, history and saved each hold at most 30 entries with  *)
(* pairwise distinct keys, and after two clicks in a row on the star of    *)
(* one result the saved list is what it was before the first.              *)
C30_ListsBoundedAndToggleRestores ==
    /\ \A list \in {cache.history, cache.saved} :
          /\ Len(list) <= 30
          /\ \A i, j \in 1..Len(list) :
                keyForInstant(list[i]) = keyForInstant(list[j]) => i = j
    /\ (last # NoResponse /\ last.count = 2) => cache.saved = last.before

============================================================================
